---- MODULE Spec2Model ----
(***************************************************************************)
(* A model of the platform game of src/script.js: level parsing, the       *)
(* per-frame transition State.update with the actors' update and collide   *)
(* rules, and the driver runGame / runLevel / runAnimation.                *)
(*                                                                         *)
(* Numbers.  JavaScript numbers are modelled in fixed point: lengths and   *)
(* positions in 1/Scale of a grid cell, speeds in 1/Scale cell per second, *)
(* time steps in milliseconds, angles in milliradians.  With the time      *)
(* steps of DTs every product of the program is exact in these units,      *)
(* except Math.sin, which Sin approximates.  Floating-point rounding is    *)
(* not modelled.                                                           *)
(*                                                                         *)
(* Identity.  Each actor carries an id, the place of its ancestor in       *)
(* level.startActors.  Within one actor array ids are distinct, so a       *)
(* comparison of ids is the comparison of references (a !== this) that    *)
(* the collide rules make.                                                 *)
(***************************************************************************)
EXTENDS Integers, Sequences, FiniteSets, TLC

VARIABLES
  level,    \* State.level: the parsed Level of the running simulation
  actors,   \* State.actors
  status,   \* State.status
  err,      \* TRUE once a State.update call has thrown
  steps,    \* number of State.update calls made on this level run
  last,     \* the last State.update call: its receiver and arguments
  game,     \* the driver: runGame, runLevel, runAnimation (see SpecGame)
  call      \* a call made outside the game loop: its function, its
            \* arguments and how far it has come (see SpecParse)

vars == <<level, actors, status, err, steps, last, game, call>>

(***************************************************************************)
(* Bounds of the model.                                                    *)
(***************************************************************************)
MaxSteps == 3

\* Time steps handed to State.update, in milliseconds.  runAnimation caps
\* the step at 100 ms; State.update itself accepts any step.
DTs == {100, 200}

\* Values of Math.random() * Math.PI * 2, in milliradians.
RandomPhases == {0, 4000}

Keys == [ArrowLeft : BOOLEAN, ArrowRight : BOOLEAN, ArrowUp : BOOLEAN]

(***************************************************************************)
(* Vec                                                                     *)
(***************************************************************************)
Scale == 1000

Vec(x, y) == [x |-> x, y |-> y]

Plus(a, b) == Vec(a.x + b.x, a.y + b.y)

\* v.times(factor) for an integer factor
Times(v, factor) == Vec(v.x * factor, v.y * factor)

\* v.times(time) for a time step given in milliseconds
TimesMs(v, time) == Vec((v.x * time) \div Scale, (v.y * time) \div Scale)

Floor(v) == v \div Scale

Ceil(v) == -((-v) \div Scale)

(***************************************************************************)
(* Actors: the prototype sizes and the static create methods               *)
(***************************************************************************)
PlayerSize == Vec(800, 1500)
LavaSize == Vec(1000, 1000)
CoinSize == Vec(600, 600)
MonsterSize == Vec(1200, 2000)

Size(a) ==
  CASE a.type = "player" -> PlayerSize
    [] a.type = "lava" -> LavaSize
    [] a.type = "coin" -> CoinSize
    [] a.type = "monster" -> MonsterSize

NewPlayer(id, pos, speed) ==
  [type |-> "player", id |-> id, pos |-> pos, speed |-> speed]

\* reset is a set: {} for undefined, {p} for the position p
NewLava(id, pos, speed, reset) ==
  [type |-> "lava", id |-> id, pos |-> pos, speed |-> speed, reset |-> reset]

NewCoin(id, pos, basePos, wobble) ==
  [type |-> "coin", id |-> id, pos |-> pos, basePos |-> basePos, wobble |-> wobble]

\* The constructor of Monster drops its second argument.
NewMonster(id, pos) ==
  [type |-> "monster", id |-> id, pos |-> pos]

PlayerCreate(id, pos) == NewPlayer(id, Plus(pos, Vec(0, -500)), Vec(0, 0))

LavaCreate(id, pos, char) ==
  CASE char = "=" -> NewLava(id, pos, Vec(2000, 0), {})
    [] char = "|" -> NewLava(id, pos, Vec(0, 2000), {})
    [] char = "v" -> NewLava(id, pos, Vec(0, 3000), {pos})

CoinCreate(id, pos, random) ==
  LET basePos == Plus(pos, Vec(200, 100))
  IN NewCoin(id, basePos, basePos, random)

MonsterCreate(id, pos) == NewMonster(id, Plus(pos, Vec(0, -1000)))

(***************************************************************************)
(* levelChars and the Level constructor                                    *)
(***************************************************************************)
ActorClasses == {"Player", "Coin", "Lava", "Monster"}

levelChars ==
  [c \in {".", "#", "+", "@", "o", "=", "|", "v", "M"} |->
    CASE c = "." -> "empty"
      [] c = "#" -> "wall"
      [] c = "+" -> "lava"
      [] c = "@" -> "Player"
      [] c = "o" -> "Coin"
      [] c \in {"=", "|", "v"} -> "Lava"
      [] c = "M" -> "Monster"]

Create(class, id, pos, char, random) ==
  CASE class = "Player" -> PlayerCreate(id, pos)
    [] class = "Lava" -> LavaCreate(id, pos, char)
    [] class = "Coin" -> CoinCreate(id, pos, random)
    [] class = "Monster" -> MonsterCreate(id, pos)

\* The plan is a sequence of rows, each a sequence of characters: the value
\* of plan.trim().split('\n').map(line => [...line]).
PlanWidth(plan) == Len(plan[1])

\* The cells of the first n rows in the order rows.map and row.map visit
\* them, each with its x, its y and its character.
RECURSIVE Cells(_, _)
Cells(plan, n) ==
  IF n = 0 THEN <<>>
  ELSE Cells(plan, n - 1)
       \o [x \in 1..Len(plan[n]) |-> [x |-> x - 1, y |-> n - 1, char |-> plan[n][x]]]

NumCells(plan) == Len(Cells(plan, Len(plan)))

CharAt(plan, k) == Cells(plan, Len(plan))[k].char

IsActorChar(c) == levelChars[c] \in ActorClasses

NumCoins(plan) == Cardinality({k \in 1..NumCells(plan) : CharAt(plan, k) = "o"})

\* Mutant of ActorCells: the cells of the plan are visited last to first.
ActorCellsBackwards(plan) ==
  LET cells == SelectSeq(Cells(plan, Len(plan)), LAMBDA c : IsActorChar(c.char))
  IN [i \in 1..Len(cells) |-> cells[Len(cells) + 1 - i]]

\* the cells for which the constructor calls this.startActors.push, in the
\* order it visits them
ActorCells(plan) == SelectSeq(Cells(plan, Len(plan)), LAMBDA c : IsActorChar(c.char))

\* startActors when the constructor returns: one actor for each push,
\* type.create(new Vec(x, y), char); random[i] is the value of the i-th
\* Math.random() * Math.PI * 2, and each Coin.create draws one.
StartActors(plan, random) ==
  LET cells == ActorCells(plan)
  IN [i \in 1..Len(cells) |->
       Create(levelChars[cells[i].char], i,
              Vec(cells[i].x * Scale, cells[i].y * Scale), cells[i].char,
              IF cells[i].char = "o"
              THEN random[Cardinality({j \in 1..i : cells[j].char = "o"})]
              ELSE 0)]

Level(plan, random) ==
  [height |-> Len(plan),
   width |-> PlanWidth(plan),
   rows |-> [y \in 1..Len(plan) |->
              [x \in 1..Len(plan[y]) |->
                IF IsActorChar(plan[y][x]) THEN "empty" ELSE levelChars[plan[y][x]]]],
   startActors |-> StartActors(plan, random)]

\* new Level(plan) throws a TypeError when levelChars has no entry for a
\* character: type is undefined and type.create is read.
LevelThrows(plan) ==
  \E k \in 1..NumCells(plan) : CharAt(plan, k) \notin DOMAIN levelChars

\* The text of a plan is a sequence of characters.  String.prototype.trim
\* strips the white space at both ends.
WhiteSpace == {"\n", " ", "\t", "\r"}

RECURSIVE TrimStart(_)
TrimStart(text) ==
  IF text # <<>> /\ Head(text) \in WhiteSpace THEN TrimStart(Tail(text)) ELSE text

RECURSIVE TrimEnd(_)
TrimEnd(text) ==
  IF text # <<>> /\ text[Len(text)] \in WhiteSpace
  THEN TrimEnd(SubSeq(text, 1, Len(text) - 1))
  ELSE text

Trim(text) == TrimEnd(TrimStart(text))

\* text.split('\n'): one line more than the text has line feeds
RECURSIVE Split(_)
Split(text) ==
  IF \A i \in 1..Len(text) : text[i] # "\n" THEN <<text>>
  ELSE LET i == CHOOSE i \in 1..Len(text) :
                  text[i] = "\n" /\ \A j \in 1..(i - 1) : text[j] # "\n"
       IN <<SubSeq(text, 1, i - 1)>> \o Split(SubSeq(text, i + 1, Len(text)))

\* Mutant of PlanRows: the text is not trimmed.
PlanRowsNoTrim(text) == Split(text)

\* plan.trim().split('\n').map(line => [...line])
PlanRows(text) == Split(Trim(text))

(***************************************************************************)
(* State                                                                   *)
(***************************************************************************)
\* Mutant of State: the constructor stores the actors in the level too.
StateWritesLevel(lv, acts, stat) ==
  [level |-> [lv EXCEPT !.startActors = acts], actors |-> acts, status |-> stat]

State(lv, acts, stat) == [level |-> lv, actors |-> acts, status |-> stat]

Start(lv) == State(lv, lv.startActors, "playing")

HasPlayer(acts) == \E i \in 1..Len(acts) : acts[i].type = "player"

\* get player(): the first actor of type player
PlayerOf(acts) ==
  acts[CHOOSE i \in 1..Len(acts) :
         /\ acts[i].type = "player"
         /\ \A j \in 1..(i - 1) : acts[j].type # "player"]

(***************************************************************************)
(* Level.prototype.touches                                                 *)
(***************************************************************************)
\* Mutant of IsOutside: the lower bound of the grid is tested with > for >=.
IsOutsideOffByOne(lv, x, y) == x < 0 \/ x >= lv.width \/ y < 0 \/ y > lv.height

\* Mutant of IsOutside: the rows below the grid are not outside.
IsOutsideNoBottom(lv, x, y) == x < 0 \/ x >= lv.width \/ y < 0

IsOutside(lv, x, y) == x < 0 \/ x >= lv.width \/ y < 0 \/ y >= lv.height

\* this.rows[y][x]: a TypeError when rows[y] is undefined, undefined when
\* only x is out of range.
RowsAt(lv, x, y) ==
  IF y < 0 \/ y >= Len(lv.rows) THEN "TypeError"
  ELSE IF x < 0 \/ x >= Len(lv.rows[y + 1]) THEN "undefined"
  ELSE lv.rows[y + 1][x + 1]

Here(lv, x, y) == IF IsOutside(lv, x, y) THEN "wall" ELSE RowsAt(lv, x, y)

\* Mutant of Touches: the loops run up to xEnd and yEnd inclusive.
TouchesInclusive(lv, pos, size, type) ==
  LET xStart == Floor(pos.x)
      yStart == Floor(pos.y)
      xEnd == Ceil(pos.x + size.x)
      yEnd == Ceil(pos.y + size.y)
  IN \E y \in yStart..yEnd : \E x \in xStart..xEnd :
       Here(lv, x, y) = type

Touches(lv, pos, size, type) ==
  LET xStart == Floor(pos.x)
      yStart == Floor(pos.y)
      xEnd == Ceil(pos.x + size.x)
      yEnd == Ceil(pos.y + size.y)
  IN \E y \in yStart..(yEnd - 1) : \E x \in xStart..(xEnd - 1) :
       Here(lv, x, y) = type

\* touches throws when it reads a cell whose row is undefined before it has
\* returned true for an earlier cell (cells are read in row-major order).
TouchesThrows(lv, pos, size, type) ==
  LET xStart == Floor(pos.x)
      yStart == Floor(pos.y)
      xEnd == Ceil(pos.x + size.x)
      yEnd == Ceil(pos.y + size.y)
  IN \E y \in yStart..(yEnd - 1) : \E x \in xStart..(xEnd - 1) :
       /\ Here(lv, x, y) = "TypeError"
       /\ \A y2 \in yStart..y : \A x2 \in xStart..(xEnd - 1) :
            (y2 < y \/ x2 < x) => Here(lv, x2, y2) # type

(***************************************************************************)
(* overlap                                                                 *)
(***************************************************************************)
\* Mutant of Overlap: the second comparison is left out.
OverlapOneSided(actor1, actor2) ==
  /\ actor1.pos.x + Size(actor1).x > actor2.pos.x
  /\ actor1.pos.y + Size(actor1).y > actor2.pos.y
  /\ actor1.pos.y < actor2.pos.y + Size(actor2).y

\* Mutant of Overlap: the comparisons are not strict.
OverlapInclusive(actor1, actor2) ==
  /\ actor1.pos.x + Size(actor1).x >= actor2.pos.x
  /\ actor1.pos.x <= actor2.pos.x + Size(actor2).x
  /\ actor1.pos.y + Size(actor1).y >= actor2.pos.y
  /\ actor1.pos.y <= actor2.pos.y + Size(actor2).y

Overlap(actor1, actor2) ==
  /\ actor1.pos.x + Size(actor1).x > actor2.pos.x
  /\ actor1.pos.x < actor2.pos.x + Size(actor2).x
  /\ actor1.pos.y + Size(actor1).y > actor2.pos.y
  /\ actor1.pos.y < actor2.pos.y + Size(actor2).y

(***************************************************************************)
(* The update rules of the actors.  time is in milliseconds.               *)
(***************************************************************************)
MONSTER_SPEED == 4
WOBBLE_SPEED == 8
WOBBLE_DIST == 70
PLAYER_X_SPEED == 7
GRAVITY == 30
JUMP_SPEED == 17

\* Math.PI in milliradians
HalfTurn == 3142

\* 1000 * Math.sin(w) for w in milliradians, by Bhaskara's approximation
\* (16 q / (5 pi^2 - 4 q) with q = r (pi - r)), in 32-bit integer arithmetic.
SinHalf(r) ==
  LET q == r * (HalfTurn - r)
  IN (1000 * (q \div 4)) \div ((5 * HalfTurn * HalfTurn - 4 * q) \div 64)

Sin(w) ==
  LET r == w % (2 * HalfTurn)
  IN IF r <= HalfTurn THEN SinHalf(r) ELSE -SinHalf(r - HalfTurn)

\* Math.sin(wobble) * WOBBLE_DIST, rounded to the nearest unit
WobblePos(wobble) == (Sin(wobble) * WOBBLE_DIST + 500) \div 1000

\* newPos of Monster.update; player is state.player
\* Mutant of MonsterNewPos: a monster under or over the player goes left.
MonsterNewPosLeftOnTie(this, time, player) ==
  LET speed == (IF player.pos.x <= this.pos.x THEN -1 ELSE 1) * time * MONSTER_SPEED
  IN Vec(this.pos.x + speed, this.pos.y)

MonsterNewPos(this, time, player) ==
  LET speed == (IF player.pos.x < this.pos.x THEN -1 ELSE 1) * time * MONSTER_SPEED
  IN Vec(this.pos.x + speed, this.pos.y)

\* Mutant of MonsterUpdate: the monster moves whatever it touches.
MonsterUpdateThroughWalls(this, time, st) ==
  NewMonster(this.id, MonsterNewPos(this, time, PlayerOf(st.actors)))

MonsterUpdate(this, time, st) ==
  LET newPos == MonsterNewPos(this, time, PlayerOf(st.actors))
  IN IF Touches(st.level, newPos, Size(this), "wall")
     THEN this
     ELSE NewMonster(this.id, newPos)

\* Mutant of LavaUpdate: the lava that jumps back is built without its
\* reset position.
LavaUpdateForgetsReset(this, time, st) ==
  LET newPost == Plus(this.pos, TimesMs(this.speed, time))
  IN IF ~Touches(st.level, newPost, Size(this), "wall")
     THEN NewLava(this.id, newPost, this.speed, this.reset)
     ELSE IF this.reset # {}
     THEN NewLava(this.id, CHOOSE p \in this.reset : TRUE, this.speed, {})
     ELSE NewLava(this.id, this.pos, Times(this.speed, -1), {})

\* Mutant of LavaUpdate: the two blocked branches are exchanged.
LavaUpdateBranchesSwapped(this, time, st) ==
  LET newPost == Plus(this.pos, TimesMs(this.speed, time))
  IN IF ~Touches(st.level, newPost, Size(this), "wall")
     THEN NewLava(this.id, newPost, this.speed, this.reset)
     ELSE IF this.reset = {}
     THEN NewLava(this.id, this.pos, this.speed, this.reset)
     ELSE NewLava(this.id, this.pos, Times(this.speed, -1), {})

LavaUpdate(this, time, st) ==
  LET newPost == Plus(this.pos, TimesMs(this.speed, time))
  IN IF ~Touches(st.level, newPost, Size(this), "wall")
     THEN NewLava(this.id, newPost, this.speed, this.reset)
     ELSE IF this.reset # {}
     THEN NewLava(this.id, CHOOSE p \in this.reset : TRUE, this.speed, this.reset)
     ELSE NewLava(this.id, this.pos, Times(this.speed, -1), {})

\* Mutant of CoinUpdate: the offset is added to this.pos, not to basePos.
CoinUpdateFromPos(this, time) ==
  LET wobble == this.wobble + time * WOBBLE_SPEED
      wobblePos == WobblePos(wobble)
  IN NewCoin(this.id, Plus(this.pos, Vec(0, wobblePos)), this.basePos, wobble)

CoinUpdate(this, time) ==
  LET wobble == this.wobble + time * WOBBLE_SPEED
      wobblePos == WobblePos(wobble)
  IN NewCoin(this.id, Plus(this.basePos, Vec(0, wobblePos)), this.basePos, wobble)

\* The horizontal half of Player.update: the attempted speed and the
\* position after the horizontal move.
PlayerXSpeed(keys) ==
  (IF keys.ArrowLeft THEN -(PLAYER_X_SPEED * Scale) ELSE 0)
  + (IF keys.ArrowRight THEN PLAYER_X_SPEED * Scale ELSE 0)

PlayerMovedX(this, time, keys) ==
  Plus(this.pos, Vec((PlayerXSpeed(keys) * time) \div Scale, 0))

PlayerPosX(this, time, st, keys) ==
  IF ~Touches(st.level, PlayerMovedX(this, time, keys), Size(this), "wall")
  THEN PlayerMovedX(this, time, keys)
  ELSE this.pos

\* Mutant of PlayerUpdate: the jump is taken whenever the key is held and
\* the vertical move is blocked, floor or ceiling.
PlayerUpdateJumpsAnywhere(this, time, st, keys) ==
  LET xSpeed == PlayerXSpeed(keys)
      pos == PlayerPosX(this, time, st, keys)
      ySpeed == this.speed.y + time * GRAVITY
      movedY == Plus(pos, Vec(0, (ySpeed * time) \div Scale))
  IN IF ~Touches(st.level, movedY, Size(this), "wall")
     THEN NewPlayer(this.id, movedY, Vec(xSpeed, ySpeed))
     ELSE IF keys.ArrowUp
     THEN NewPlayer(this.id, pos, Vec(xSpeed, -(JUMP_SPEED * Scale)))
     ELSE NewPlayer(this.id, pos, Vec(xSpeed, 0))

\* Mutant of PlayerUpdate: a blocked horizontal move reports no speed.
PlayerUpdateStopsAtWall(this, time, st, keys) ==
  LET pos == PlayerPosX(this, time, st, keys)
      xSpeed == IF pos = this.pos THEN 0 ELSE PlayerXSpeed(keys)
      ySpeed == this.speed.y + time * GRAVITY
      movedY == Plus(pos, Vec(0, (ySpeed * time) \div Scale))
  IN IF ~Touches(st.level, movedY, Size(this), "wall")
     THEN NewPlayer(this.id, movedY, Vec(xSpeed, ySpeed))
     ELSE IF keys.ArrowUp /\ ySpeed > 0
     THEN NewPlayer(this.id, pos, Vec(xSpeed, -(JUMP_SPEED * Scale)))
     ELSE NewPlayer(this.id, pos, Vec(xSpeed, 0))

\* Mutant of PlayerUpdate: the vertical move starts from this.pos, before
\* the horizontal move.
PlayerUpdateVerticalFromStart(this, time, st, keys) ==
  LET xSpeed == PlayerXSpeed(keys)
      pos == PlayerPosX(this, time, st, keys)
      ySpeed == this.speed.y + time * GRAVITY
      movedY == Plus(this.pos, Vec(0, (ySpeed * time) \div Scale))
  IN IF ~Touches(st.level, movedY, Size(this), "wall")
     THEN NewPlayer(this.id, movedY, Vec(xSpeed, ySpeed))
     ELSE IF keys.ArrowUp /\ ySpeed > 0
     THEN NewPlayer(this.id, pos, Vec(xSpeed, -(JUMP_SPEED * Scale)))
     ELSE NewPlayer(this.id, pos, Vec(xSpeed, 0))

PlayerUpdate(this, time, st, keys) ==
  LET xSpeed == PlayerXSpeed(keys)
      pos == PlayerPosX(this, time, st, keys)
      ySpeed == this.speed.y + time * GRAVITY
      movedY == Plus(pos, Vec(0, (ySpeed * time) \div Scale))
  IN IF ~Touches(st.level, movedY, Size(this), "wall")
     THEN NewPlayer(this.id, movedY, Vec(xSpeed, ySpeed))
     ELSE IF keys.ArrowUp /\ ySpeed > 0
     THEN NewPlayer(this.id, pos, Vec(xSpeed, -(JUMP_SPEED * Scale)))
     ELSE NewPlayer(this.id, pos, Vec(xSpeed, 0))

\* actor.update(time, state, keys), dispatched on the actor's class
ActorUpdate(actor, time, st, keys) ==
  CASE actor.type = "player" -> PlayerUpdate(actor, time, st, keys)
    [] actor.type = "lava" -> LavaUpdate(actor, time, st)
    [] actor.type = "coin" -> CoinUpdate(actor, time)
    [] actor.type = "monster" -> MonsterUpdate(actor, time, st)

\* Whether actor.update(time, state, keys) throws.
ActorUpdateThrows(actor, time, st, keys) ==
  CASE actor.type = "player" ->
         LET pos == PlayerPosX(actor, time, st, keys)
             ySpeed == actor.speed.y + time * GRAVITY
             movedY == Plus(pos, Vec(0, (ySpeed * time) \div Scale))
         IN \/ TouchesThrows(st.level, PlayerMovedX(actor, time, keys), Size(actor), "wall")
            \/ TouchesThrows(st.level, movedY, Size(actor), "wall")
    [] actor.type = "lava" ->
         TouchesThrows(st.level, Plus(actor.pos, TimesMs(actor.speed, time)),
                       Size(actor), "wall")
    [] actor.type = "coin" -> FALSE
    [] actor.type = "monster" ->
         \/ ~HasPlayer(st.actors)
         \/ TouchesThrows(st.level, MonsterNewPos(actor, time, PlayerOf(st.actors)),
                          Size(actor), "wall")
    [] OTHER -> TRUE

\* Mutant of UpdateAll: the actors are updated one after the other, each
\* against a state that already holds the updated actors before it.
RECURSIVE UpdateSequential(_, _, _, _)
UpdateSequential(st, time, keys, i) ==
  IF i = 0 THEN st.actors
  ELSE LET acts == UpdateSequential(st, time, keys, i - 1)
       IN [acts EXCEPT ![i] =
             ActorUpdate(acts[i], time, State(st.level, acts, st.status), keys)]

UpdateAllSequential(st, time, keys) == UpdateSequential(st, time, keys, Len(st.actors))

\* this.actors.map(actor => actor.update(time, this, keys)): every actor is
\* updated against the receiver of State.update.
UpdateAll(st, time, keys) ==
  [i \in 1..Len(st.actors) |-> ActorUpdate(st.actors[i], time, st, keys)]

(***************************************************************************)
(* The collide rules                                                       *)
(***************************************************************************)
Without(acts, this) == SelectSeq(acts, LAMBDA a : a.id # this.id)

\* Mutant of LavaCollide: the lava vanishes as a coin does.
LavaCollideVanishes(this, st) == State(st.level, Without(st.actors, this), "lost")

LavaCollide(this, st) == State(st.level, st.actors, "lost")

\* Mutant of CoinCollide: every coin is filtered out, not only this one.
CoinCollideAllCoins(this, st) ==
  State(st.level, SelectSeq(st.actors, LAMBDA a : a.type # "coin"), "won")

\* Mutant of CoinCollide: the status is never set to won.
CoinCollideNoWin(this, st) == State(st.level, Without(st.actors, this), st.status)

\* Mutant of CoinCollide: the status is won whatever coins are left.
CoinCollideWinsAtOnce(this, st) == State(st.level, Without(st.actors, this), "won")

CoinCollide(this, st) ==
  LET filtered == Without(st.actors, this)
  IN State(st.level, filtered,
           IF ~(\E i \in 1..Len(filtered) : filtered[i].type = "coin")
           THEN "won" ELSE st.status)

\* The stomp test of Monster.collide
Stomps(player, monster) == player.pos.y + Size(player).y < monster.pos.y + 500

\* Mutant of MonsterCollide: the two branches are exchanged.
MonsterCollideSwapped(this, st) ==
  LET player == PlayerOf(st.actors)
  IN IF Stomps(player, this)
     THEN State(st.level, st.actors, "lost")
     ELSE State(st.level, Without(st.actors, this), st.status)

MonsterCollide(this, st) ==
  LET player == PlayerOf(st.actors)
  IN IF Stomps(player, this)
     THEN State(st.level, Without(st.actors, this), st.status)
     ELSE State(st.level, st.actors, "lost")

HasCollide(actor) == actor.type \in {"lava", "coin", "monster"}

Collide(actor, st) ==
  CASE actor.type = "lava" -> LavaCollide(actor, st)
    [] actor.type = "coin" -> CoinCollide(actor, st)
    [] actor.type = "monster" -> MonsterCollide(actor, st)

(***************************************************************************)
(* State.prototype.update                                                  *)
(***************************************************************************)
\* Mutant of CollideLoop: every collide is applied to the state the loop
\* started with, and the last one gives the result.
RECURSIVE CollideLoopSameState(_, _, _, _)
CollideLoopSameState(st0, acts, player, i) ==
  IF i = 0 THEN st0
  ELSE IF acts[i].id # player.id /\ Overlap(acts[i], player)
  THEN Collide(acts[i], st0)
  ELSE CollideLoopSameState(st0, acts, player, i - 1)

\* newState after the first i iterations of the loop over the updated actors
RECURSIVE CollideLoop(_, _, _, _)
CollideLoop(st0, acts, player, i) ==
  IF i = 0 THEN st0
  ELSE LET newState == CollideLoop(st0, acts, player, i - 1)
           actor == acts[i]
       IN IF actor.id # player.id /\ Overlap(actor, player)
          THEN Collide(actor, newState)
          ELSE newState

\* Mutant of StateUpdate: no early return when the game is already over.
StateUpdateNoEarlyReturn(st, time, keys) ==
  LET acts == UpdateAll(st, time, keys)
      newState == State(st.level, acts, st.status)
      player == PlayerOf(acts)
  IN IF Touches(st.level, player.pos, Size(player), "lava")
     THEN State(st.level, acts, "lost")
     ELSE CollideLoop(newState, acts, player, Len(acts))

\* Mutant of StateUpdate: the background lava is not tested.
StateUpdateNoLavaTest(st, time, keys) ==
  LET acts == UpdateAll(st, time, keys)
      newState == State(st.level, acts, st.status)
  IN IF newState.status # "playing" THEN newState
     ELSE CollideLoop(newState, acts, PlayerOf(acts), Len(acts))

\* Mutant of StateUpdate: a playing state in which no coin is left is won.
StateUpdateWinsWithoutCoins(st, time, keys) ==
  LET acts == UpdateAll(st, time, keys)
      newState == State(st.level, acts, st.status)
  IN IF newState.status # "playing" THEN newState
     ELSE LET player == PlayerOf(acts)
              collided == CollideLoop(newState, acts, player, Len(acts))
          IN IF Touches(st.level, player.pos, Size(player), "lava")
             THEN State(st.level, acts, "lost")
             ELSE IF collided.status = "playing"
                     /\ \A i \in 1..Len(collided.actors) : collided.actors[i].type # "coin"
             THEN State(st.level, collided.actors, "won")
             ELSE collided

\* Mutant of StateUpdate: a state that is won or lost is returned as it is.
StateUpdateFreezesWhenOver(st, time, keys) ==
  LET acts == UpdateAll(st, time, keys)
      newState == State(st.level, acts, st.status)
  IN IF newState.status # "playing" THEN st
     ELSE LET player == PlayerOf(acts)
          IN IF Touches(st.level, player.pos, Size(player), "lava")
             THEN State(st.level, acts, "lost")
             ELSE CollideLoop(newState, acts, player, Len(acts))

\* Mutant of StateUpdate: the background lava is tested after the loop over
\* the actors, on the state the collide rules returned.
StateUpdateLavaTestLast(st, time, keys) ==
  LET acts == UpdateAll(st, time, keys)
      newState == State(st.level, acts, st.status)
  IN IF newState.status # "playing" THEN newState
     ELSE LET player == PlayerOf(acts)
              collided == CollideLoop(newState, acts, player, Len(acts))
          IN IF Touches(st.level, player.pos, Size(player), "lava")
             THEN State(st.level, collided.actors, "lost")
             ELSE collided

StateUpdate(st, time, keys) ==
  LET acts == UpdateAll(st, time, keys)
      newState == State(st.level, acts, st.status)
  IN IF newState.status # "playing" THEN newState
     ELSE LET player == PlayerOf(acts)
          IN IF Touches(st.level, player.pos, Size(player), "lava")
             THEN State(st.level, acts, "lost")
             ELSE CollideLoop(newState, acts, player, Len(acts))

\* Whether State.update(time, keys) throws: an actor's update throws, the
\* player is not found, touches throws, or an overlapping actor has no
\* collide method.
\* Mutant of UpdateReceiver: the actors are updated in place, in this.actors.
UpdateReceiverInPlace(st, time, keys) ==
  State(st.level, UpdateAll(st, time, keys), st.status)

\* The receiver of State.update when the call has returned.  update and the
\* rules it calls assign to no field of this, of this.actors or of an actor:
\* map and filter build new arrays, and every rule returns a new object or,
\* for a blocked monster, this itself.
UpdateReceiver(st, time, keys) == st

StateUpdateThrows(st, time, keys) ==
  \/ \E i \in 1..Len(st.actors) : ActorUpdateThrows(st.actors[i], time, st, keys)
  \/ /\ st.status = "playing"
     /\ \/ ~HasPlayer(st.actors)
        \/ LET acts == UpdateAll(st, time, keys)
               player == PlayerOf(acts)
           IN \/ TouchesThrows(st.level, player.pos, Size(player), "lava")
              \/ /\ ~Touches(st.level, player.pos, Size(player), "lava")
                 /\ \E i \in 1..Len(acts) :
                      /\ acts[i].id # player.id
                      /\ Overlap(acts[i], player)
                      /\ ~HasCollide(acts[i])

(***************************************************************************)
(* The simulation: State.start on a level, then State.update calls with    *)
(* any time step of DTs and any key snapshot.                              *)
(***************************************************************************)
\* lava, player, coin: the player spawns under a vertical lava and beside
\* the only coin
PlanLavaCoin ==
  << <<".", "|", ".">>,
     <<".", "@", "o">> >>

\* coin, player, lava
PlanCoinLava ==
  << <<".", "o", ".">>,
     <<".", "@", "=">> >>

\* the player spawns in the air beside the two coins, one above the other,
\* with a lava behind them: coin, player, coin, lava
PlanTwoCoins ==
  << <<".", "o", ".">>,
     <<"@", "o", "|">>,
     <<".", ".", ".">> >>

\* the player spawns two rows above a monster, beside the only coin
PlanStomp ==
  << <<".", ".", ".", ".">>,
     <<"@", "o", ".", ".">>,
     <<".", ".", ".", ".">>,
     <<"M", ".", ".", ".">> >>

\* player and monster on the floor, the player first in startActors
PlanPlayerMonster ==
  << <<".", ".", ".">>,
     <<"@", ".", "M">> >>

\* the same, the monster first
PlanMonsterPlayer ==
  << <<".", ".", ".">>,
     <<"M", ".", "@">> >>

\* the player spawns with its head in a lava tile; a second lava tile lies
\* on the floor
PlanLavaTiles ==
  << <<"+", ".", ".", ".">>,
     <<"@", ".", ".", "+">> >>

\* a dripping lava in the corner opposite to the player
PlanDrip ==
  << <<"v", ".", ".">>,
     <<".", ".", "@">> >>

\* the player spawns on the only coin, beside a lava tile
PlanCoinLavaTile ==
  << <<"o", "+">>,
     <<"@", ".">> >>

Plans ==
  {PlanLavaCoin, PlanCoinLava, PlanTwoCoins, PlanStomp,
   PlanPlayerMonster, PlanMonsterPlayer, PlanLavaTiles, PlanCoinLavaTile,
   PlanDrip}

NoKeys == [ArrowLeft |-> FALSE, ArrowRight |-> FALSE, ArrowUp |-> FALSE]

NoCall == [called |-> FALSE, actors |-> <<>>, status |-> "playing", time |-> 0, keys |-> NoKeys]

Call(acts, stat, time, keys) ==
  [called |-> TRUE, actors |-> acts, status |-> stat, time |-> time, keys |-> keys]

NoGame == [pc |-> "none"]

NoOutsideCall == [fn |-> "none"]

\* State.start(new Level(plan))
Init ==
  \E plan \in Plans : \E random \in [1..NumCoins(plan) -> RandomPhases] :
    /\ level = Level(plan, random)
    /\ actors = Start(level).actors
    /\ status = Start(level).status
    /\ err = FALSE
    /\ steps = 0
    /\ last = NoCall
    /\ game = NoGame
    /\ call = NoOutsideCall

\* state = state.update(time, keys); a call that throws assigns nothing
Step(time, keys) ==
  /\ ~err
  /\ LET st == State(level, actors, status)
     IN IF StateUpdateThrows(st, time, keys)
        THEN /\ err' = TRUE
             /\ UNCHANGED <<level, actors, status>>
        ELSE \E newState \in {StateUpdate(st, time, keys)} :
               /\ err' = FALSE
               /\ level' = newState.level
               /\ actors' = newState.actors
               /\ status' = newState.status
  /\ \E receiver \in {UpdateReceiver(State(level, actors, status), time, keys)} :
       last' = Call(receiver.actors, receiver.status, time, keys)
  /\ steps' = steps + 1
  /\ UNCHANGED <<game, call>>

Update(time, keys) == steps < MaxSteps /\ Step(time, keys)

Next == \E time \in DTs : \E keys \in Keys : Update(time, keys)

Spec == Init /\ [][Next]_vars

(***************************************************************************)
(* A long fall: State.start on a shaft of one column, then State.update    *)
(* calls with time steps of at most 0.1 s, the cap of runAnimation.        *)
(***************************************************************************)
\* the player spawns at the top of the shaft, eleven free cells above a
\* floor one cell thick with two free cells under it
PlanShaft ==
  << <<".">>, <<"@">>,
     <<".">>, <<".">>, <<".">>, <<".">>, <<".">>, <<".">>,
     <<".">>, <<".">>, <<".">>, <<".">>, <<".">>,
     <<"#">>,
     <<".">>, <<".">> >>

\* time steps up to the cap, in milliseconds
ShaftDTs == {50, 100}

\* the number of updates of the fall
MaxShaftSteps == 9

ShaftInit ==
  /\ level = Level(PlanShaft, <<>>)
  /\ actors = Start(level).actors
  /\ status = Start(level).status
  /\ err = FALSE
  /\ steps = 0
  /\ last = NoCall
  /\ game = NoGame
  /\ call = NoOutsideCall

ShaftNext ==
  \E time \in ShaftDTs : \E keys \in Keys : steps < MaxShaftSteps /\ Step(time, keys)

SpecShaft == ShaftInit /\ [][ShaftNext]_vars

(***************************************************************************)
(* The driver: runGame, runLevel, runAnimation, trackKeys.                 *)
(*                                                                         *)
(* game.pc is "level" while runGame awaits a runLevel promise and "done"   *)
(* when runGame has returned.  game.loops holds, for every animation loop  *)
(* that has a frame requested, its lastTime: <<>> for null, <<t>> for a    *)
(* timestamp, counted from the timestamp of the latest animation frame.    *)
(***************************************************************************)
START_LIVES == 3

\* let ending = 1, in milliseconds
ENDING == 1000

\* Math.min(time - lastTime, 100)
MAX_TIME_STEP == 100

\* the levels of the game
PlanGame1 ==
  << <<"o", "+">>,
     <<"@", ".">> >>

PlanGame2 ==
  << <<"+", "o">>,
     <<".", "@">> >>

GamePlans == <<PlanGame1, PlanGame2>>

\* time between two animation frames, in milliseconds
FrameDeltas == {100, 200}

\* how many level runs the model follows
MaxRuns == 5

\* the keys the player of these levels presses and releases
PressedKeys == {"ArrowLeft", "ArrowRight"}

\* Math.random() of the coins of these levels
GameRandoms == [1..1 -> {0}]

\* The simulation and the driver as one value, for the operators below.
World(lv, acts, stat, e, n, g) ==
  [level |-> lv, actors |-> acts, status |-> stat, err |-> e, steps |-> n, game |-> g]

\* runLevel(new Level(plans[g.level]), Display) up to the promise it
\* returns; random parses the coins' phases
RunLevel(g, random) ==
  LET lv == Level(GamePlans[g.level + 1], random)
  IN World(lv, Start(lv).actors, Start(lv).status, FALSE, 0,
           [g EXCEPT !.pc = "level",
                     !.displays = @ + 1,
                     !.ending = ENDING,
                     !.sinceOver = 0,
                     !.firstOver = "playing",
                     !.running = "yes",
                     !.escHandler = TRUE,
                     !.arrowKeys = NoKeys,
                     !.tracking = TRUE,
                     !.runs = @ + 1,
                     !.loops = Append(@, <<>>)])

\* runGame with level++ on every result
RunGameResumeAlwaysNext(w, stat, random) ==
  LET g == [w.game EXCEPT !.level = @ + 1,
                          !.lives = IF stat = "won" THEN @ ELSE @ - 1,
                          !.resolved = stat]
  IN IF g.level < Len(GamePlans)
     THEN RunLevel(g, random)
     ELSE [w EXCEPT !.game = [g EXCEPT !.pc = "done"]]

\* runGame after the promise of runLevel has resolved with stat
RunGameResume(w, stat, random) ==
  LET g == [w.game EXCEPT !.level = IF stat = "won" THEN @ + 1 ELSE @,
                          !.lives = IF stat = "won" THEN @ ELSE @ - 1,
                          !.resolved = stat]
  IN IF g.level < Len(GamePlans)
     THEN RunLevel(g, random)
     ELSE [w EXCEPT !.game = [g EXCEPT !.pc = "done"]]

\* ending -= time, in doubles, for the time step 0.1 that the capped loop
\* passes when frames are 100 ms or more apart: 1 - 0.1 - ... - 0.1 is
\* 0.10000000000000014 after nine steps and 1.3877787807814457e-16, not 0,
\* after ten.  The model keeps the sign of that remainder as 1 ms.
EndingMinus(ending, time) ==
  IF time = 100 /\ ending = 100 THEN 1 ELSE ending - time

\* Mutant of LevelFrame: no countdown, the promise resolves with the first
\* state that is not 'playing'.
LevelFrameResolvesAtOnce(w, i, time, random) ==
  IF w.game.running = "pausing"
  THEN [w |-> [w EXCEPT !.game.running = "no"], ret |-> FALSE]
  ELSE IF StateUpdateThrows(State(w.level, w.actors, w.status), time, w.game.arrowKeys)
  THEN [w |-> [w EXCEPT !.err = TRUE], ret |-> FALSE]
  ELSE LET state == StateUpdate(State(w.level, w.actors, w.status), time, w.game.arrowKeys)
           w1 == [w EXCEPT !.level = state.level, !.actors = state.actors,
                           !.status = state.status, !.steps = @ + 1,
                           !.game.firstOver = IF @ = "playing" THEN state.status ELSE @]
       IN IF state.status = "playing" THEN [w |-> w1, ret |-> TRUE]
          ELSE [w |-> RunGameResume(
                        [w1 EXCEPT !.game.displays = @ - 1,
                                   !.game.escHandler = FALSE, !.game.tracking = FALSE],
                        state.status, random),
                ret |-> FALSE]

\* frame(time) of runLevel, for the animation loop i: the world after it and
\* the value it returns.  A call of state.update that throws ends the loop.
\* game.displays counts the displays in the document, game.firstOver keeps
\* the status of the first state that was not 'playing' and game.sinceOver
\* the time steps, in milliseconds, of the frames since that state.
LevelFrame(w, i, time, random) ==
  IF w.game.running = "pausing"
  THEN [w |-> [w EXCEPT !.game.running = "no"], ret |-> FALSE]
  ELSE IF StateUpdateThrows(State(w.level, w.actors, w.status), time, w.game.arrowKeys)
  THEN [w |-> [w EXCEPT !.err = TRUE], ret |-> FALSE]
  ELSE LET state == StateUpdate(State(w.level, w.actors, w.status), time, w.game.arrowKeys)
           w1 == [w EXCEPT !.level = state.level, !.actors = state.actors,
                           !.status = state.status, !.steps = @ + 1,
                           !.game.firstOver = IF @ = "playing" THEN state.status ELSE @]
       IN IF state.status = "playing" THEN [w |-> w1, ret |-> TRUE]
          ELSE IF w1.game.ending > 0
          THEN [w |-> [w1 EXCEPT !.game.ending = EndingMinus(@, time),
                                 !.game.sinceOver = @ + time],
                ret |-> TRUE]
          ELSE [w |-> RunGameResume(
                        [w1 EXCEPT !.game.displays = @ - 1,
                                   !.game.escHandler = FALSE, !.game.tracking = FALSE],
                        state.status, random),
                ret |-> FALSE]

\* frame(time) of runAnimation for the loop i, called delta after the
\* latest animation frame
\* Mutant of AnimationLoopFrame: lastTime starts at the timestamp of the
\* latest animation frame, not at null.
AnimationLoopFrameNoFirstSkip(w, i, delta, random) ==
  LET lastTime == IF w.game.loops[i] = <<>> THEN <<0>> ELSE w.game.loops[i]
      timeStep == IF delta - lastTime[1] < MAX_TIME_STEP
                  THEN delta - lastTime[1] ELSE MAX_TIME_STEP
      r == LevelFrame(w, i, timeStep, random)
  IN IF r.ret = FALSE
     THEN [r.w EXCEPT !.game.loops[i] = <<-1>>, !.game.timeStep = <<timeStep>>]
     ELSE [r.w EXCEPT !.game.loops[i] = <<0>>, !.game.timeStep = <<timeStep>>]

\* game.timeStep keeps the time step of the latest call of frameFunc, in
\* milliseconds, <<>> before the first call
AnimationLoopFrame(w, i, delta, random) ==
  LET lastTime == w.game.loops[i]
  IN IF lastTime # <<>>
     THEN LET timeStep == IF delta - lastTime[1] < MAX_TIME_STEP
                          THEN delta - lastTime[1] ELSE MAX_TIME_STEP
              r == LevelFrame(w, i, timeStep, random)
          IN IF r.ret = FALSE
             THEN [r.w EXCEPT !.game.loops[i] = <<-1>>, !.game.timeStep = <<timeStep>>]
             ELSE [r.w EXCEPT !.game.loops[i] = <<0>>, !.game.timeStep = <<timeStep>>]
     ELSE [w EXCEPT !.game.loops[i] = <<0>>]

\* the callbacks of the first n loops that had a frame requested
RECURSIVE AnimationFrames(_, _, _, _)
AnimationFrames(w, n, delta, random) ==
  IF n = 0 THEN w
  ELSE AnimationLoopFrame(AnimationFrames(w, n - 1, delta, random), n, delta, random)

\* drop the loops that have returned without requesting a frame
Requested(loops) == SelectSeq(loops, LAMBDA lastTime : lastTime # <<-1>>)

GameInit ==
  \E random \in GameRandoms :
    \E w \in {RunLevel([pc |-> "start", level |-> 0, lives |-> START_LIVES,
                        ending |-> ENDING, running |-> "yes", escHandler |-> FALSE,
                        arrowKeys |-> NoKeys, tracking |-> FALSE, runs |-> 0,
                        resolved |-> "none", loops |-> <<>>, timeStep |-> <<>>,
                        displays |-> 0, sinceOver |-> 0, firstOver |-> "playing"],
                       random)} :
      /\ level = w.level
      /\ actors = w.actors
      /\ status = w.status
      /\ err = w.err
      /\ steps = w.steps
      /\ game = w.game
      /\ last = NoCall
      /\ call = NoOutsideCall

\* The browser runs an animation frame: every requested callback is called
\* with the same timestamp.
AnimationFrame(delta) ==
  /\ game.pc = "level"
  /\ ~err
  /\ game.loops # <<>>
  /\ status = "playing" => steps < MaxSteps
  /\ game.runs < MaxRuns \/ status = "playing" \/ game.ending > 0
  /\ \E random \in GameRandoms :
       \E w \in {AnimationFrames(World(level, actors, status, err, steps, game),
                                 Len(game.loops), delta, random)} :
         /\ level' = w.level
         /\ actors' = w.actors
         /\ status' = w.status
         /\ err' = w.err
         /\ steps' = w.steps
         /\ game' = [w.game EXCEPT !.loops = Requested(@)]
  /\ UNCHANGED <<last, call>>

\* Mutant of EscapeKey: an Escape while the pause is pending starts a loop.
EscapeKeyStartsLoopWhilePausing ==
  /\ game.pc = "level"
  /\ game.escHandler
  /\ game' = IF game.running = "no"
             THEN [game EXCEPT !.running = "yes", !.loops = Append(@, <<>>)]
             ELSE IF game.running = "yes"
             THEN [game EXCEPT !.running = "pausing"]
             ELSE [game EXCEPT !.running = "yes", !.loops = Append(@, <<>>)]
  /\ UNCHANGED <<level, actors, status, err, steps, last, call>>

\* escHandler, on a keydown of Escape
EscapeKey ==
  /\ game.pc = "level"
  /\ game.escHandler
  /\ game' = IF game.running = "no"
             THEN [game EXCEPT !.running = "yes", !.loops = Append(@, <<>>)]
             ELSE IF game.running = "yes"
             THEN [game EXCEPT !.running = "pausing"]
             ELSE [game EXCEPT !.running = "yes"]
  /\ UNCHANGED <<level, actors, status, err, steps, last, call>>

\* track, on a keydown or keyup of a tracked key
ArrowKey(key, down) ==
  /\ game.pc = "level"
  /\ game.tracking
  /\ game.arrowKeys[key] # down
  /\ game' = [game EXCEPT !.arrowKeys[key] = down]
  /\ UNCHANGED <<level, actors, status, err, steps, last, call>>

GameNext ==
  \/ \E delta \in FrameDeltas : AnimationFrame(delta)
  \/ EscapeKey
  \/ \E key \in PressedKeys : \E down \in BOOLEAN : ArrowKey(key, down)

SpecGame == GameInit /\ [][GameNext]_vars

(***************************************************************************)
(* Reading a level: new Level(plan) on the text of a plan, then            *)
(* State.start on the level it returns.                                    *)
(***************************************************************************)
\* the sample plan of the program, as the characters of its template literal
simpleLevelPlan ==
  <<
     "\n",
     ".", ".", ".", ".", ".", ".", ".", ".", ".", ".", ".", ".", ".", ".", ".", ".", ".", ".", ".", ".", ".", ".", "\n",
     ".", ".", "#", ".", ".", ".", ".", ".", ".", ".", ".", ".", ".", ".", ".", ".", ".", ".", ".", "#", ".", ".", "\n",
     ".", ".", "#", ".", ".", ".", ".", ".", ".", ".", ".", ".", ".", ".", ".", ".", ".", "=", ".", "#", ".", ".", "\n",
     ".", ".", "#", ".", ".", ".", ".", ".", ".", ".", ".", ".", "o", ".", "o", ".", ".", ".", ".", "#", ".", ".", "\n",
     ".", ".", "#", ".", "@", ".", ".", ".", ".", ".", ".", "#", "#", "#", "#", "#", ".", ".", ".", "#", ".", ".", "\n",
     ".", ".", "#", "#", "#", "#", "#", ".", ".", ".", ".", ".", ".", ".", ".", ".", ".", ".", ".", "#", ".", ".", "\n",
     ".", ".", ".", ".", ".", ".", "#", "+", "+", "+", "+", "+", "+", "+", "+", "+", "+", "+", "+", "#", ".", ".", "\n",
     ".", ".", ".", ".", ".", ".", "#", "#", "#", "#", "#", "#", "#", "#", "#", "#", "#", "#", "#", "#", ".", ".", "\n",
     ".", ".", ".", ".", ".", ".", ".", ".", ".", ".", ".", ".", ".", ".", ".", ".", ".", ".", ".", ".", ".", "." >>

\* the characters of the plans that are read: the characters of levelChars,
\* one that levelChars does not have, and the line feed
PlanChars == (DOMAIN levelChars) \cup {"x", "\n"}

\* the longest text drawn from PlanChars
MaxPlanLen == 4

PlanTexts ==
  {simpleLevelPlan} \cup UNION {[1..n -> PlanChars] : n \in 0..MaxPlanLen}

\* the level variable before a Level exists
NoLevel == [height |-> 0, width |-> 0, rows |-> <<>>, startActors |-> <<>>]

ParseInit ==
  \E plan \in PlanTexts :
    \E random \in [1..Cardinality({i \in 1..Len(plan) : plan[i] = "o"}) -> RandomPhases] :
      /\ call = [fn |-> "new Level", plan |-> plan, random |-> random, pc |-> "called"]
      /\ level = NoLevel
      /\ actors = <<>>
      /\ status = "none"
      /\ err = FALSE
      /\ steps = 0
      /\ last = NoCall
      /\ game = NoGame

\* new Level(plan): it returns a Level or throws
NewLevel ==
  /\ call.fn = "new Level"
  /\ call.pc = "called"
  /\ IF LevelThrows(PlanRows(call.plan))
     THEN /\ call' = [call EXCEPT !.pc = "threw"]
          /\ UNCHANGED level
     ELSE /\ call' = [call EXCEPT !.pc = "returned"]
          /\ level' = Level(PlanRows(call.plan), call.random)
  /\ UNCHANGED <<actors, status, err, steps, last, game>>

\* State.start(level)
StateStart ==
  /\ call.fn = "new Level"
  /\ call.pc = "returned"
  /\ actors' = Start(level).actors
  /\ status' = Start(level).status
  /\ call' = [call EXCEPT !.pc = "started"]
  /\ UNCHANGED <<level, err, steps, last, game>>

ParseNext == NewLevel \/ StateStart

SpecParse == ParseInit /\ [][ParseNext]_vars

(***************************************************************************)
(* Calls of level.touches(pos, size, type) on a level, for rectangles in   *)
(* and around its grid.                                                    *)
(***************************************************************************)
\* wall, empty and lava tiles in both rows
PlanTiles ==
  << <<"#", ".", "+">>,
     <<".", "+", "#">> >>

TouchPlans == {PlanTiles, PlanLavaTiles}

\* the coordinates of pos, on and off the grid lines, inside and outside
\* the grids of TouchPlans
TouchCoords == {-1200, -1000, -200, 0, 200, 500, 1000, 1400, 2000, 2500, 3000, 4000}

\* the sizes of the actors, and a rectangle of no extent
TouchSizes == {PlayerSize, LavaSize, CoinSize, MonsterSize, Vec(0, 0)}

TileKinds == {"wall", "lava", "empty"}

TouchesInit ==
  \E plan \in TouchPlans : \E x \in TouchCoords : \E y \in TouchCoords :
    \E size \in TouchSizes : \E type \in TileKinds :
      /\ level = Level(plan, <<>>)
      /\ call = [fn |-> "touches", pos |-> Vec(x, y), size |-> size, type |-> type,
                 pc |-> "called", result |-> FALSE]
      /\ actors = <<>>
      /\ status = "none"
      /\ err = FALSE
      /\ steps = 0
      /\ last = NoCall
      /\ game = NoGame

\* level.touches(pos, size, type): it returns a boolean or throws
CallTouches ==
  /\ call.fn = "touches"
  /\ call.pc = "called"
  /\ call' = IF TouchesThrows(level, call.pos, call.size, call.type)
             THEN [call EXCEPT !.pc = "threw"]
             ELSE [call EXCEPT !.pc = "returned",
                               !.result = Touches(level, call.pos, call.size, call.type)]
  /\ UNCHANGED <<level, actors, status, err, steps, last, game>>

TouchesNext == CallTouches

SpecTouches == TouchesInit /\ [][TouchesNext]_vars

(***************************************************************************)
(* Calls of overlap(actor1, actor2) on two actors of any kinds.            *)
(***************************************************************************)
OverlapXs == {0, 600, 800, 1000, 1200}

OverlapYs == {0, 600, 1000, 1500, 2000}

\* an actor of each class at pos
ActorsAt(id, pos) ==
  {NewPlayer(id, pos, Vec(0, 0)), NewLava(id, pos, Vec(2000, 0), {}),
   NewCoin(id, pos, pos, 0), NewMonster(id, pos)}

OverlapInit ==
  \E x1 \in OverlapXs : \E y1 \in OverlapYs : \E x2 \in OverlapXs : \E y2 \in OverlapYs :
    \E actor1 \in ActorsAt(1, Vec(x1, y1)) : \E actor2 \in ActorsAt(2, Vec(x2, y2)) :
      /\ actors = <<actor1, actor2>>
      /\ call = [fn |-> "overlap", pc |-> "called", result |-> FALSE]
      /\ level = NoLevel
      /\ status = "none"
      /\ err = FALSE
      /\ steps = 0
      /\ last = NoCall
      /\ game = NoGame

\* overlap(actor1, actor2)
CallOverlap ==
  /\ call.fn = "overlap"
  /\ call.pc = "called"
  /\ call' = [call EXCEPT !.pc = "returned", !.result = Overlap(actors[1], actors[2])]
  /\ UNCHANGED <<level, actors, status, err, steps, last, game>>

OverlapNext == CallOverlap

SpecOverlap == OverlapInit /\ [][OverlapNext]_vars

(***************************************************************************)
(* Calls of player.update(time, state, keys) and lava.update(time, state)  *)
(* on one actor in a walled room.                                          *)
(***************************************************************************)
\* a room between walls with a floor and a block in the air: the floor is
\* three cells below the top of the block
PlanRoom ==
  << <<"#", ".", ".", ".", ".", ".", "#">>,
     <<"#", ".", ".", ".", ".", ".", "#">>,
     <<"#", ".", ".", "#", ".", ".", "#">>,
     <<"#", ".", ".", ".", ".", ".", "#">>,
     <<"#", ".", ".", ".", ".", ".", "#">>,
     <<"#", "#", "#", "#", "#", "#", "#">> >>

\* players against the side walls, beside, above and under the block, on
\* the floor and just above it, at rest, falling and at the speeds of a
\* jump 0, 0.2 and 0.5 seconds old; the horizontal speed is the one the
\* previous update reported
PlayerReceivers ==
  {NewPlayer(1, Vec(x, y), Vec(sx, sy)) :
     x \in {1000, 1500, 2500, 4200, 5200},
     y \in {400, 500, 1000, 3000, 3400, 3500},
     sx \in {-7000, 0, 7000},
     sy \in {-17000, -11000, -2000, 0, 3000, 6000}}

\* bouncing lavas that move along a row or a column, in both directions
BouncingLavas ==
  {NewLava(1, Vec(x, y), Vec(sx, 0), {}) :
     x \in {1000, 1200, 4800, 5000}, y \in {0, 4000}, sx \in {-2000, 2000}}
  \cup
  {NewLava(1, Vec(x, y), Vec(0, sy), {}) :
     x \in {1000, 3000}, y \in {0, 200, 800, 1000, 3000, 3800, 4000},
     sy \in {-2000, 2000}}

\* dripping lavas under their spawn cell in the top row
DrippingLavas ==
  {NewLava(1, Vec(x, y), Vec(0, 3000), {Vec(x, 0)}) :
     x \in {1000, 3000}, y \in {0, 600, 900, 3900, 4000}}

Receivers == PlayerReceivers \cup BouncingLavas \cup DrippingLavas

UpdateInit ==
  \E this \in Receivers : \E time \in DTs : \E keys \in Keys :
    /\ level = Level(PlanRoom, <<>>)
    /\ ~Touches(level, this.pos, Size(this), "wall")
    /\ actors = <<this>>
    /\ status = "playing"
    /\ call = [fn |-> "update", time |-> time, keys |-> keys,
               pc |-> "called", result |-> this]
    /\ err = FALSE
    /\ steps = 0
    /\ last = NoCall
    /\ game = NoGame

\* actors[1].update(time, state, keys)
CallUpdate ==
  /\ call.fn = "update"
  /\ call.pc = "called"
  /\ LET st == State(level, actors, status)
     IN call' = IF ActorUpdateThrows(actors[1], call.time, st, call.keys)
                THEN [call EXCEPT !.pc = "threw"]
                ELSE [call EXCEPT !.pc = "returned",
                                  !.result = ActorUpdate(actors[1], call.time, st, call.keys)]
  /\ UNCHANGED <<level, actors, status, err, steps, last, game>>

UpdateNext == CallUpdate

SpecUpdate == UpdateInit /\ [][UpdateNext]_vars

(***************************************************************************)
(* A bouncing lava in a corridor, in the arithmetic of the source.  The    *)
(* numbers of the program are IEEE 754 doubles, and 0.1, 0.2 and 0.4 are   *)
(* not among them: the double written 0.2 is 0.2 + u and the double        *)
(* written 0.4 is 0.4 + 2u, for u = 1 / (5 * 2^54).  Double(m, b) is the   *)
(* number m / 1000 + b * u, for m a multiple of 200; every position the    *)
(* lava takes from an integer cell in steps of 0.2 or 0.4 has this form,   *)
(* and the sum of two such numbers is rounded here as the addition of the  *)
(* program rounds it, to the nearest double, ties to the even mantissa.    *)
(***************************************************************************)
Double(m, b) == [m |-> m, b |-> b]

\* x < k, for an integer k
DoubleBelow(x, k) == x.m < k * Scale \/ (x.m = k * Scale /\ x.b < 0)

\* the distance between the doubles around x, in units of u: 2^(e - 52) for
\* 2^e <= x < 2^(e + 1), for 0.5 <= x < 16
DoubleUlp(x) ==
  IF DoubleBelow(x, 1) THEN 10
  ELSE IF DoubleBelow(x, 2) THEN 20
  ELSE IF DoubleBelow(x, 4) THEN 40
  ELSE IF DoubleBelow(x, 8) THEN 80
  ELSE 160

\* 2^n modulo g
RECURSIVE PowMod(_, _)
PowMod(n, g) == IF n = 0 THEN 1 % g ELSE (2 * PowMod(n - 1, g)) % g

\* x in units of u, modulo g: x = (m / 200) * 2^54 + b units
DoubleMod(x, g) == ((x.m \div 200) * PowMod(54, g) + x.b) % g

\* the double nearest to the number x
DoubleRound(x) ==
  LET ulp == DoubleUlp(x)
      r == DoubleMod(x, ulp)
      down == Double(x.m, x.b - r)
      up == Double(x.m, x.b + ulp - r)
  IN IF r = 0 THEN x
     ELSE IF 2 * r < ulp THEN down
     ELSE IF 2 * r > ulp THEN up
     ELSE IF DoubleMod(down, 2 * ulp) = 0 THEN down
     ELSE up

\* a + b of two numbers of the program
DoublePlus(a, b) == DoubleRound(Double(a.m + b.m, a.b + b.b))

\* Math.floor and Math.ceil
DoubleFloor(x) ==
  IF x.m % Scale = 0 /\ x.b < 0 THEN (x.m \div Scale) - 1 ELSE x.m \div Scale

DoubleCeil(x) ==
  IF x.m % Scale # 0 \/ x.b > 0 THEN (x.m \div Scale) + 1 ELSE x.m \div Scale

\* speed * time for a speed of 2, 0 or -2 and a time step of 0.1 or 0.2:
\* the time steps are the doubles written 0.1 and 0.2, and their products
\* by 2 and -2 are exact, the doubles written 0.2 and 0.4 and their
\* opposites
DoubleTimes(speed, time) == Double((speed * time) \div Scale, (speed * time) \div 200000)

\* level.touches(pos, size, type) for a position and a size in doubles
DoubleTouches(lv, pos, size, type) ==
  LET xStart == DoubleFloor(pos.x)
      yStart == DoubleFloor(pos.y)
      xEnd == DoubleCeil(DoublePlus(pos.x, size.x))
      yEnd == DoubleCeil(DoublePlus(pos.y, size.y))
  IN \E y \in yStart..(yEnd - 1) : \E x \in xStart..(xEnd - 1) :
       Here(lv, x, y) = type

\* Lava.prototype.update for a bouncing lava whose position is in doubles
DoubleLavaUpdate(this, time, st) ==
  LET newPost == Vec(DoublePlus(this.pos.x, DoubleTimes(this.speed.x, time)),
                     DoublePlus(this.pos.y, DoubleTimes(this.speed.y, time)))
      size == Vec(Double(LavaSize.x, 0), Double(LavaSize.y, 0))
  IN IF ~DoubleTouches(st.level, newPost, size, "wall")
     THEN NewLava(this.id, newPost, this.speed, this.reset)
     ELSE NewLava(this.id, this.pos, Times(this.speed, -1), {})

\* corridors of three and six cells between two walls, the lava in the
\* first or the second cell
PlanCorridorFirst == << <<"#", "=", ".", ".", "#">> >>

PlanCorridorSecond == << <<"#", ".", "=", ".", "#">> >>

PlanCorridorLong == << <<"#", "=", ".", ".", ".", ".", ".", "#">> >>

CorridorPlans == {PlanCorridorFirst, PlanCorridorSecond, PlanCorridorLong}

\* the number of updates of a lava that is followed
MaxBounceSteps == 50

\* the lava Lava.create made, its position in doubles
DoubleActor(a) == [a EXCEPT !.pos = Vec(Double(a.pos.x, 0), Double(a.pos.y, 0))]

\* the level, its lava, and the time step of every update; call keeps the
\* lava as it was created, the sides on which it has been blocked, and
\* whether it has been at its starting position, moving in its starting
\* direction, since it was blocked on both
BounceInit ==
  \E plan \in CorridorPlans : \E time \in DTs :
    /\ level = Level(plan, <<>>)
    /\ actors = <<DoubleActor(level.startActors[1])>>
    /\ call = [fn |-> "bounce", time |-> time, start |-> actors[1],
               blocked |-> {}, returned |-> FALSE]
    /\ status = "playing"
    /\ err = FALSE
    /\ steps = 0
    /\ last = NoCall
    /\ game = NoGame

\* lava = lava.update(time, state)
LavaStep ==
  /\ call.fn = "bounce"
  /\ steps < MaxBounceSteps
  /\ \E lava \in {DoubleLavaUpdate(actors[1], call.time, State(level, actors, status))} :
       \E blocked \in {IF lava.pos # actors[1].pos THEN call.blocked
                        ELSE call.blocked \cup {IF actors[1].speed.x > 0
                                                THEN "right" ELSE "left"}} :
         /\ actors' = <<lava>>
         /\ call' = [call EXCEPT
                       !.blocked = blocked,
                       !.returned = \/ call.returned
                                    \/ /\ blocked = {"left", "right"}
                                       /\ lava.speed = call.start.speed
                                       /\ lava.pos = call.start.pos]
  /\ steps' = steps + 1
  /\ UNCHANGED <<level, status, err, last, game>>

BounceNext == LavaStep

SpecBounce == BounceInit /\ [][BounceNext]_vars

(***************************************************************************)
(* The last call of State.update, as the properties below read it.         *)
(***************************************************************************)
\* the receiver of the last call
Pre == State(level, last.actors, last.status)

\* the array of updated actors the last call computed
Upd == UpdateAll(Pre, last.time, last.keys)

\* newState.player of the last call
UpdPlayer == PlayerOf(Upd)

\* the last call was made on a playing state
FromPlaying == last.called /\ ~err /\ last.status = "playing"

\* the updated player touches a background lava tile
UpdTouchesLavaTile == Touches(level, UpdPlayer.pos, PlayerSize, "lava")

\* the loop of the last call runs collide for the i-th updated actor
CollidesAt(i) == Upd[i].id # UpdPlayer.id /\ Overlap(Upd[i], UpdPlayer)

\* the player's bottom edge is above the monster's vertical midpoint by the
\* margin of half a cell
StompMargin == 500

FeetAbove(player, monster) ==
  player.pos.y + PlayerSize.y < monster.pos.y + (MonsterSize.y \div 2) - StompMargin

\* the collide of the i-th updated actor sets the status to lost
SetsLostAt(i) ==
  /\ CollidesAt(i)
  /\ \/ Upd[i].type = "lava"
     \/ Upd[i].type = "monster" /\ ~FeetAbove(UpdPlayer, Upd[i])

\* the collide of the i-th updated actor removes it
RemovedAt(i) ==
  /\ CollidesAt(i)
  /\ \/ Upd[i].type = "coin"
     \/ Upd[i].type = "monster" /\ FeetAbove(UpdPlayer, Upd[i])

IdIn(id, acts) == \E k \in 1..Len(acts) : acts[k].id = id

CoinsOf(acts) == {k \in 1..Len(acts) : acts[k].type = "coin"}

\* the updated actors the collide rules of the last call leave, in order
Survivors == SelectSeq(Upd, LAMBDA a : \A i \in 1..Len(Upd) : Upd[i] = a => ~RemovedAt(i))

(***************************************************************************)
(* C1: status is absorbing.  An update of a state whose status is won or   *)
(* lost returns the same status, for every time step and key snapshot: in  *)
(* every step of the simulation, a status other than playing is kept.      *)
(***************************************************************************)
C1_StatusAbsorbing == [][status # "playing" => status' = status]_vars

\* an update was made on a state that was already lost, and moved an actor
C1_Witness ==
  last.called /\ last.status = "lost" /\ status = "lost" /\ actors # last.actors

(***************************************************************************)
(* C2 as claimed: from a playing state with exactly one coin that the      *)
(* player overlaps, one update returns won, the coin is absent and every   *)
(* other updated actor is still present.                                   *)
(***************************************************************************)
C2_Original ==
  (/\ FromPlaying
   /\ Cardinality(CoinsOf(last.actors)) = 1
   /\ \E c \in CoinsOf(last.actors) : Overlap(last.actors[c], PlayerOf(last.actors)))
  => /\ status = "won"
     /\ CoinsOf(actors) = {}
     /\ \A i \in 1..Len(Upd) : Upd[i].type # "coin" => IdIn(Upd[i].id, actors)

(***************************************************************************)
(* C2 amended: from a playing state with exactly one coin, when the        *)
(* updated player touches no lava tile and overlaps the updated coin, the  *)
(* update removes the coin and keeps every other actor but the monsters    *)
(* stomped in the same step; it returns won when no lava and no monster    *)
(* that is not stomped overlaps the player, and lost when one that comes   *)
(* later in the list than the coin does.                                   *)
(***************************************************************************)
C2_WinCondition ==
  (/\ FromPlaying
   /\ Cardinality(CoinsOf(Upd)) = 1
   /\ ~UpdTouchesLavaTile
   /\ \E c \in CoinsOf(Upd) : CollidesAt(c))
  => /\ CoinsOf(actors) = {}
     /\ actors = Survivors
     /\ (\A j \in 1..Len(Upd) : ~SetsLostAt(j)) => status = "won"
     /\ \A c \in CoinsOf(Upd) :
          (\E j \in (c + 1)..Len(Upd) : SetsLostAt(j)) => status = "lost"

\* the only coin was collected next to another actor, and the game is won
C2_Witness ==
  /\ FromPlaying
  /\ Cardinality(CoinsOf(Upd)) = 1
  /\ ~UpdTouchesLavaTile
  /\ \E c \in CoinsOf(Upd) : CollidesAt(c)
  /\ status = "won"
  /\ Len(actors) = Len(Upd) - 1
  /\ Len(actors) >= 2

(***************************************************************************)
(* C3 as claimed: if in a playing state the player's rectangle touches a   *)
(* lava tile, the next update returns lost, with the updated actors.       *)
(***************************************************************************)
C3_Original ==
  (/\ FromPlaying
   /\ Touches(level, PlayerOf(last.actors).pos, PlayerSize, "lava"))
  => status = "lost" /\ actors = Upd

(***************************************************************************)
(* C3 amended: if, in an update of a playing state, the player's rectangle *)
(* after its own update touches a lava tile, the update returns lost, for  *)
(* every time step and key snapshot, and the returned actor list is        *)
(* exactly the list of the per-actor update results.                       *)
(***************************************************************************)
C3_LossOnLavaTile ==
  (FromPlaying /\ UpdTouchesLavaTile) => status = "lost" /\ actors = Upd

\* the player walked into a lava tile it did not touch before
C3_Witness ==
  /\ FromPlaying
  /\ ~Touches(level, PlayerOf(last.actors).pos, PlayerSize, "lava")
  /\ UpdTouchesLavaTile
  /\ status = "lost"

(***************************************************************************)
(* C4: in an update of a playing state where the updated player touches no *)
(* lava tile and overlaps an updated lava actor, the returned status is    *)
(* lost, whatever else overlaps the player.                                *)
(***************************************************************************)
C4_LavaActorLoses ==
  (/\ FromPlaying
   /\ ~UpdTouchesLavaTile
   /\ \E i \in 1..Len(Upd) : Upd[i].type = "lava" /\ CollidesAt(i))
  => status = "lost"

C6_Original ==
  FromPlaying =>
    \A i \in 1..Len(Upd) :
      (Upd[i].type = "monster" /\ CollidesAt(i)) =>
        IF FeetAbove(UpdPlayer, Upd[i])
        THEN ~IdIn(Upd[i].id, actors) /\ status = "playing"
        ELSE IdIn(Upd[i].id, actors) /\ status = "lost"

(***************************************************************************)
(* C6 amended: when the updated player touches no lava tile and overlaps a *)
(* monster, the monster is removed if the player's feet are above the      *)
(* monster's midpoint by the margin, and remains otherwise; and when that  *)
(* monster is the only actor overlapping the player, the status stays      *)
(* playing in the first case and becomes lost in the second.               *)
(***************************************************************************)
C6_MonsterStomp ==
  (FromPlaying /\ ~UpdTouchesLavaTile) =>
    \A i \in 1..Len(Upd) :
      (Upd[i].type = "monster" /\ CollidesAt(i)) =>
        /\ FeetAbove(UpdPlayer, Upd[i]) <=> ~IdIn(Upd[i].id, actors)
        /\ (\A j \in 1..Len(Upd) : CollidesAt(j) => j = i) =>
             /\ status = IF FeetAbove(UpdPlayer, Upd[i]) THEN "playing" ELSE "lost"
             /\ Len(actors) = IF FeetAbove(UpdPlayer, Upd[i]) THEN Len(Upd) - 1 ELSE Len(Upd)

\* the player stomped a monster and nothing else: the game goes on
C6_Witness ==
  /\ FromPlaying
  /\ ~UpdTouchesLavaTile
  /\ \E i \in 1..Len(Upd) :
       /\ Upd[i].type = "monster"
       /\ CollidesAt(i)
       /\ FeetAbove(UpdPlayer, Upd[i])
       /\ \A j \in 1..Len(Upd) : CollidesAt(j) => j = i
       /\ ~IdIn(Upd[i].id, actors)
  /\ status = "playing"

(***************************************************************************)
(* C7: no State.update call throws in any state reachable from State.start *)
(* of a level parsed from a rectangular plan of recognised characters with *)
(* exactly one '@'.                                                        *)
(***************************************************************************)
C7_NoRuntimeError == ~err

\* an update returned that tested a rectangle reaching out of the grid and
\* ran a collide that removed an actor
C7_Witness ==
  /\ last.called
  /\ ~err
  /\ Len(actors) < Len(last.actors)
  /\ \E i \in 1..Len(actors) :
       actors[i].type = "lava" /\ actors[i].speed # last.actors[i].speed

(***************************************************************************)
(* C8: simultaneous update.  Every monster the update returns has moved in *)
(* the direction decided from the player's position before this step (-1   *)
(* if the player's x was less than the monster's, +1 otherwise), or has    *)
(* stayed where it was if that move touches wall; wherever the player      *)
(* stands in the actor list.                                               *)
(***************************************************************************)
C8_SimultaneousUpdate ==
  (last.called /\ ~err) =>
    \A i \in 1..Len(actors) : \A k \in 1..Len(last.actors) :
      (actors[i].type = "monster" /\ last.actors[k].id = actors[i].id) =>
        LET old == last.actors[k]
            dir == IF PlayerOf(last.actors).pos.x < old.pos.x THEN -1 ELSE 1
            newPos == Vec(old.pos.x + dir * last.time * MONSTER_SPEED, old.pos.y)
        IN actors[i].pos =
             IF Touches(level, newPos, MonsterSize, "wall") THEN old.pos ELSE newPos

\* a monster placed after the player in the list moved while the player
\* crossed its x position in the same step
C8_Witness ==
  /\ last.called
  /\ ~err
  /\ \E i \in 1..Len(actors) : \E k \in 1..Len(last.actors) : \E p \in 1..Len(actors) :
       /\ actors[i].type = "monster"
       /\ last.actors[k].id = actors[i].id
       /\ actors[p].type = "player"
       /\ p < i
       /\ actors[i].pos # last.actors[k].pos
       /\ (PlayerOf(last.actors).pos.x < last.actors[k].pos.x)
            # (actors[p].pos.x < last.actors[k].pos.x)

(***************************************************************************)
(* C9 as claimed: if the player overlaps the last two remaining coins in   *)
(* the same step, both are removed and the returned status is won.         *)
(***************************************************************************)
C9_Original ==
  (/\ FromPlaying
   /\ Cardinality(CoinsOf(Upd)) = 2
   /\ \A c \in CoinsOf(Upd) : CollidesAt(c))
  => CoinsOf(actors) = {} /\ status = "won"

(***************************************************************************)
(* C9 amended: collide calls are applied in list order, each to the state  *)
(* the previous one produced.  If the updated player touches no lava tile  *)
(* and overlaps the last two remaining coins in the same step, both are    *)
(* removed; the returned status is won when no lava and no monster that is *)
(* not stomped overlaps the player, and lost when one that comes later in  *)
(* the list than both coins does.                                          *)
(***************************************************************************)
C9_SequentialCollide ==
  (/\ FromPlaying
   /\ ~UpdTouchesLavaTile
   /\ Cardinality(CoinsOf(Upd)) = 2
   /\ \A c \in CoinsOf(Upd) : CollidesAt(c))
  => /\ CoinsOf(actors) = {}
     /\ actors = Survivors
     /\ (\A j \in 1..Len(Upd) : ~SetsLostAt(j)) => status = "won"
     /\ (\E j \in 1..Len(Upd) : SetsLostAt(j) /\ \A c \in CoinsOf(Upd) : c < j)
          => status = "lost"

\* both coins were collected in one step, and the game is won
C9_Witness ==
  /\ FromPlaying
  /\ ~UpdTouchesLavaTile
  /\ Cardinality(CoinsOf(Upd)) = 2
  /\ \A c \in CoinsOf(Upd) : CollidesAt(c)
  /\ CoinsOf(actors) = {}
  /\ status = "won"

(***************************************************************************)
(* The steps of runGame, as the property of the driver reads them.         *)
(***************************************************************************)
\* this step resolves the promise of the running level
RunResolves == game.pc = "level" /\ (game'.runs # game.runs \/ game'.pc = "done")

\* this step leaves the simulation at the start of the plan at index
PlanStarts(index) ==
  /\ index < Len(GamePlans)
  /\ game'.pc = "level"
  /\ \E random \in GameRandoms :
       /\ level' = Level(GamePlans[index + 1], random)
       /\ actors' = Level(GamePlans[index + 1], random).startActors
  /\ status' = "playing"

\* C10: in runGame a level run that resolves with 'won' is followed by a run
\* of the next plan (index + 1), a run that resolves with 'lost' by a run of
\* the same plan index from a freshly parsed Level, every actor at its
\* starting position; the level index never decreases, and runGame returns
\* only on a 'won' of the last plan.
C10_DriverPolicy ==
  [][ /\ game'.level >= game.level
      /\ RunResolves =>
           /\ game'.resolved = status
           /\ status \in {"won", "lost"}
           /\ status = "won" =>
                /\ game'.level = game.level + 1
                /\ game'.level < Len(GamePlans) => PlanStarts(game'.level)
           /\ status = "lost" =>
                /\ game'.level = game.level
                /\ PlanStarts(game.level)
           /\ game'.pc = "done" <=>
                (status = "won" /\ game.level = Len(GamePlans) - 1)
      /\ ~RunResolves => game'.pc = game.pc /\ game'.level = game.level
    ]_vars

\* runGame has returned after a level was lost, run again and won
C10_Witness ==
  /\ game.pc = "done"
  /\ game.resolved = "won"
  /\ game.level = Len(GamePlans)
  /\ game.lives < START_LIVES

(***************************************************************************)
(* The last call of new Level, as the properties of the parser read it.    *)
(***************************************************************************)
\* new Level(plan) has returned a Level
Parsed == call.fn = "new Level" /\ call.pc \in {"returned", "started"}

\* the rows of characters of the plan that was read
ReadRows == PlanRows(call.plan)

\* the places <<x, y>> of the characters of rows, counted from 1
Places(rows) == UNION {{<<x, y>> : x \in 1..Len(rows[y])} : y \in 1..Len(rows)}

TileChars == {".", "#", "+"}

\* the fixed table, tile characters
TileKind(char) ==
  CASE char = "." -> "empty"
    [] char = "#" -> "wall"
    [] char = "+" -> "lava"

\* the fixed table, actor characters
ActorKind(char) ==
  CASE char = "@" -> "player"
    [] char = "o" -> "coin"
    [] char \in {"=", "|", "v"} -> "lava"
    [] char = "M" -> "monster"

\* how many actor characters rows holds at or before <<x, y>>, in
\* row-major order
ActorCharsUpTo(rows, x, y) ==
  Cardinality({p \in Places(rows) :
                 /\ rows[p[2]][p[1]] \notin TileChars
                 /\ p[2] < y \/ (p[2] = y /\ p[1] <= x)})

\* C11: level parsing maps every plan character by the fixed table.  A tile
\* character yields its tile kind at rows[y][x]; an actor character yields
\* empty at rows[y][x] and exactly one actor of the mapped kind, created
\* from the grid position (x, y), at the place in startActors that
\* row-major order gives it.  A plan of '.' and '#' only yields an empty
\* startActors.
C11_LevelParsing ==
  Parsed =>
    LET rows == ReadRows
    IN /\ Len(level.rows) = Len(rows)
       /\ \A y \in 1..Len(rows) : Len(level.rows[y]) = Len(rows[y])
       /\ Len(level.startActors) =
            Cardinality({p \in Places(rows) : rows[p[2]][p[1]] \notin TileChars})
       /\ \A p \in Places(rows) :
            LET char == rows[p[2]][p[1]]
                i == ActorCharsUpTo(rows, p[1], p[2])
            IN IF char \in TileChars
               THEN level.rows[p[2]][p[1]] = TileKind(char)
               ELSE /\ level.rows[p[2]][p[1]] = "empty"
                    /\ i \in 1..Len(level.startActors)
                    /\ level.startActors[i].type = ActorKind(char)
                    /\ level.startActors[i] =
                         Create(levelChars[char], i,
                                Vec((p[1] - 1) * Scale, (p[2] - 1) * Scale), char,
                                IF char = "o" THEN level.startActors[i].wobble ELSE 0)
       /\ (\A p \in Places(rows) : rows[p[2]][p[1]] \in {".", "#"})
            => level.startActors = <<>>

\* a plan of two rows was read: a coin above the player, in this order
C11_Witness ==
  /\ Parsed
  /\ level.height = 2
  /\ Len(level.startActors) = 2
  /\ level.startActors[1].type = "coin"
  /\ level.startActors[2].type = "player"
  /\ level.startActors[2].pos = Vec(0, 500)
  /\ level.rows = << <<"empty">>, <<"empty">> >>

\* the rows of the plan differ in length
Ragged(rows) == \E y \in 1..Len(rows) : Len(rows[y]) # Len(rows[1])

\* the plan holds a character outside the table
Unrecognised(rows) == \E p \in Places(rows) : rows[p[2]][p[1]] \notin DOMAIN levelChars

\* C12: parsing a plan whose rows have different lengths, or that holds a
\* character outside the table, fails and yields no Level; so every Level
\* that exists has exactly width cells in every row.
C12_MalformedPlanFails ==
  /\ (call.fn = "new Level" /\ call.pc # "called"
      /\ (Ragged(ReadRows) \/ Unrecognised(ReadRows)))
       => call.pc = "threw"
  /\ Parsed => \A y \in 1..Len(level.rows) : Len(level.rows[y]) = level.width

\* C13: parsing a plan without the player-spawn character '@' fails at
\* parse time, so no simulation state is started from a level without a
\* player.
C13_NoPlayerFails ==
  /\ (call.fn = "new Level" /\ call.pc # "called"
      /\ \A i \in 1..Len(call.plan) : call.plan[i] # "@")
       => call.pc = "threw"
  /\ (call.fn = "new Level" /\ call.pc = "started") => HasPlayer(actors)

\* the kind of every actor of a list of four: two coins, a player, a lava
SampleKinds(acts) ==
  /\ Len(acts) = 4
  /\ Cardinality({i \in 1..4 : acts[i].type = "coin"}) = 2
  /\ Cardinality({i \in 1..4 : acts[i].type = "player"}) = 1
  /\ Cardinality({i \in 1..4 : acts[i].type = "lava"}) = 1

\* C14: parsing simpleLevelPlan yields width 22 and height 9, startActors
\* of exactly 2 coins, 1 player and 1 lava actor (from '=', moving
\* horizontally), wall exactly at the '#' of the plan and lava exactly at
\* its '+'.  The character of column x and row y, counted from 0, is the
\* character 23 y + x + 2 of the text, which starts with a line feed.
C14_SamplePlan ==
  (Parsed /\ call.plan = simpleLevelPlan) =>
    /\ level.width = 22
    /\ level.height = 9
    /\ SampleKinds(level.startActors)
    /\ \A i \in 1..Len(level.startActors) :
         level.startActors[i].type = "lava" =>
           level.startActors[i].speed = Vec(2000, 0)
    /\ Len(level.rows) = 9
    /\ \A y \in 0..8 :
         /\ Len(level.rows[y + 1]) = 22
         /\ \A x \in 0..21 :
              /\ level.rows[y + 1][x + 1] = "wall" <=> simpleLevelPlan[23 * y + x + 2] = "#"
              /\ level.rows[y + 1][x + 1] = "lava" <=> simpleLevelPlan[23 * y + x + 2] = "+"

\* a simulation state was started from the level of simpleLevelPlan
C14_Witness ==
  /\ call.fn = "new Level"
  /\ call.pc = "started"
  /\ call.plan = simpleLevelPlan
  /\ SampleKinds(actors)
  /\ status = "playing"

(***************************************************************************)
(* The last call of touches, as the properties of the grid read it.        *)
(***************************************************************************)
TouchesReturned == call.fn = "touches" /\ call.pc = "returned"

\* the kind of the cell (x, y): wall outside the grid, rows[y][x] inside
CellKind(x, y) ==
  IF x >= 0 /\ x < level.width /\ y >= 0 /\ y < level.height
  THEN level.rows[y + 1][x + 1]
  ELSE "wall"

\* the integer cells from two cells before the grid to two cells after it
\* and the rectangles of TouchesInit
CellRange == -3..7

\* floor(pos.x) <= x < ceil(pos.x + size.x) and the same for y, written
\* without floor and ceil: for an integer x, floor(p) <= x is p < x + 1 and
\* x < ceil(q) is x < q
InRectangle(x, y) ==
  /\ call.pos.x < (x + 1) * Scale
  /\ x * Scale < call.pos.x + call.size.x
  /\ call.pos.y < (y + 1) * Scale
  /\ y * Scale < call.pos.y + call.size.y

\* C15: touches(pos, size, kind) returns true if and only if some integer
\* cell (x, y) with floor(pos.x) <= x < ceil(pos.x + size.x) and
\* floor(pos.y) <= y < ceil(pos.y + size.y) has the kind, a cell outside
\* the grid counting as wall and a cell inside it as rows[y][x].  So a
\* rectangle whose right or bottom edge lies on a grid line does not touch
\* the next cell, and a rectangle that lies outside the grid touches
\* neither lava nor empty.
C15_Touches ==
  /\ call.fn = "touches" => call.pc # "threw"
  /\ TouchesReturned =>
       /\ call.result <=>
            \E x \in CellRange : \E y \in CellRange :
              InRectangle(x, y) /\ CellKind(x, y) = call.type
       /\ ((call.pos.x + call.size.x) % Scale = 0
           /\ \A x \in CellRange : \A y \in CellRange :
                (InRectangle(x, y) \/ InRectangle(x - 1, y))
                  => (CellKind(x, y) = call.type
                        => x = (call.pos.x + call.size.x) \div Scale))
            => ~call.result
       /\ ((call.pos.y + call.size.y) % Scale = 0
           /\ \A x \in CellRange : \A y \in CellRange :
                (InRectangle(x, y) \/ InRectangle(x, y - 1))
                  => (CellKind(x, y) = call.type
                        => y = (call.pos.y + call.size.y) \div Scale))
            => ~call.result
       /\ ((\/ call.pos.x + call.size.x <= 0
            \/ call.pos.x >= level.width * Scale
            \/ call.pos.y + call.size.y <= 0
            \/ call.pos.y >= level.height * Scale)
           /\ call.type \in {"lava", "empty"})
            => ~call.result

\* the right edge of the rectangle lies on the grid line of a lava cell,
\* inside the grid, and touches has returned false for lava
C15_Witness ==
  /\ TouchesReturned
  /\ call.type = "lava"
  /\ call.size.x > 0
  /\ call.pos.x >= 0
  /\ call.pos.y >= 0
  /\ (call.pos.x + call.size.x) % Scale = 0
  /\ \E y \in CellRange :
       /\ InRectangle(((call.pos.x + call.size.x) \div Scale) - 1, y)
       /\ CellKind((call.pos.x + call.size.x) \div Scale, y) = "lava"
       /\ (call.pos.x + call.size.x) \div Scale < level.width
  /\ ~call.result

\* the rectangle has a positive size and extends outside the grid area
ExtendsOutside ==
  /\ call.size.x > 0
  /\ call.size.y > 0
  /\ \/ call.pos.x < 0
     \/ call.pos.x + call.size.x > level.width * Scale
     \/ call.pos.y < 0
     \/ call.pos.y + call.size.y > level.height * Scale

\* C16: boundary solidity.  For any level and any rectangle of positive
\* size that extends outside the grid area [0, width) x [0, height),
\* touches(pos, size, 'wall') is true, whatever tiles the level holds.
C16_BoundarySolidity ==
  (call.fn = "touches" /\ call.pc # "called" /\ call.type = "wall" /\ ExtendsOutside)
    => call.pc = "returned" /\ call.result

\* a rectangle that starts over tiles that are not wall and reaches below
\* the grid touches wall
C16_Witness ==
  /\ TouchesReturned
  /\ call.type = "wall"
  /\ ExtendsOutside
  /\ call.pos.x >= 0
  /\ call.pos.y >= 0
  /\ call.pos.x + call.size.x <= level.width * Scale
  /\ call.pos.y + call.size.y > level.height * Scale
  /\ \A x \in 0..(level.width - 1) : \A y \in 0..(level.height - 1) :
       InRectangle(x, y) => CellKind(x, y) # "wall"
  /\ call.result

(***************************************************************************)
(* The last call of overlap.                                               *)
(***************************************************************************)
OverlapReturned == call.fn = "overlap" /\ call.pc = "returned"

\* C17: overlap symmetry.  overlap(a, b) = overlap(b, a) for every pair of
\* actors a, b of any kinds and at any positions.
C17_OverlapSymmetry ==
  OverlapReturned => (call.result <=> Overlap(actors[2], actors[1]))

\* two actors of different kinds overlap, and do so in both orders
C17_Witness ==
  /\ OverlapReturned
  /\ actors[1].type # actors[2].type
  /\ actors[1].pos # actors[2].pos
  /\ call.result
  /\ Overlap(actors[2], actors[1])

Min(a, b) == IF a < b THEN a ELSE b

Max(a, b) == IF a > b THEN a ELSE b

\* the extent of the intersection of the two rectangles on each axis
ExtentX(a, b) == Min(a.pos.x + Size(a).x, b.pos.x + Size(b).x) - Max(a.pos.x, b.pos.x)

ExtentY(a, b) == Min(a.pos.y + Size(a).y, b.pos.y + Size(b).y) - Max(a.pos.y, b.pos.y)

\* the rectangles share an edge or a corner
SharesEdge(a, b) ==
  \/ a.pos.x + Size(a).x = b.pos.x
  \/ b.pos.x + Size(b).x = a.pos.x
  \/ a.pos.y + Size(a).y = b.pos.y
  \/ b.pos.y + Size(b).y = a.pos.y

\* C18: overlap(a, b) is true only when the two rectangles intersect with
\* nonzero extent on both axes; two actors whose rectangles merely share
\* an edge or a corner do not overlap.
C18_OverlapStrict ==
  OverlapReturned =>
    /\ call.result <=> (ExtentX(actors[1], actors[2]) > 0 /\ ExtentY(actors[1], actors[2]) > 0)
    /\ SharesEdge(actors[1], actors[2]) => ~call.result

\* the right edge of the first actor is the left edge of the second, their
\* vertical extents intersect, and overlap has returned false
C18_Witness ==
  /\ OverlapReturned
  /\ actors[1].pos.x + Size(actors[1]).x = actors[2].pos.x
  /\ ExtentY(actors[1], actors[2]) > 0
  /\ ~call.result

C20_LevelImmutable ==
  /\ [](steps = 0 => (status = "playing" /\ actors = level.startActors))
  /\ [][level' = level]_vars

\* after two updates a coin is gone from the actors and the start actors
\* of the level still hold it
C20_Witness ==
  /\ steps >= 2
  /\ ~err
  /\ Len(actors) < Len(level.startActors)
  /\ \E i \in 1..Len(level.startActors) :
       /\ level.startActors[i].type = "coin"
       /\ ~IdIn(level.startActors[i].id, actors)

(***************************************************************************)
(* C21: the lava-tile test comes before every collide and is made on the   *)
(* player as its own update left it.  When the updated player touches a    *)
(* lava tile, the update returns lost and runs no collide: every updated   *)
(* actor that overlaps the player, coin or monster, is returned in its     *)
(* place in the list.  When the updated player touches no lava tile and    *)
(* overlaps no actor, the state stays playing, whatever tile the player    *)
(* touched before the update.                                              *)
(***************************************************************************)
C21_LavaTileBeforeCollide ==
  /\ (FromPlaying /\ UpdTouchesLavaTile)
       => /\ status = "lost"
          /\ Len(actors) = Len(Upd)
          /\ \A i \in 1..Len(Upd) : CollidesAt(i) => actors[i] = Upd[i]
  /\ (FromPlaying /\ ~UpdTouchesLavaTile /\ \A i \in 1..Len(Upd) : ~CollidesAt(i))
       => status = "playing"

\* the player walked into a lava tile while it overlapped a coin, and the
\* coin is still there
C21_Witness ==
  /\ FromPlaying
  /\ UpdTouchesLavaTile
  /\ status = "lost"
  /\ \E i \in 1..Len(Upd) :
       CollidesAt(i) /\ Upd[i].type = "coin" /\ IdIn(Upd[i].id, actors)

(***************************************************************************)
(* The call of update on the receiver actors[1], as the properties below   *)
(* read it.                                                                *)
(***************************************************************************)
PlayerUpdateReturned ==
  call.fn = "update" /\ call.pc = "returned" /\ actors[1].type = "player"

LavaUpdateReturned ==
  call.fn = "update" /\ call.pc = "returned" /\ actors[1].type = "lava"

\* the distance covered at speed (in thousandths of a cell per second) in
\* the time step of the call (in milliseconds)
Covered(speed) == (speed * call.time) \div Scale

\* the horizontal speed the keys ask for
Attempted ==
  IF call.keys.ArrowLeft /\ ~call.keys.ArrowRight THEN -7000
  ELSE IF call.keys.ArrowRight /\ ~call.keys.ArrowLeft THEN 7000
  ELSE 0

\* the player's position after the horizontal move is resolved
AfterHorizontal ==
  LET dest == Vec(actors[1].pos.x + Covered(Attempted), actors[1].pos.y)
  IN IF Touches(level, dest, PlayerSize, "wall") THEN actors[1].pos ELSE dest

\* the vertical speed after gravity
Accelerated == actors[1].speed.y + 30 * call.time

\* the tentative vertical move is blocked by wall
VerticalBlocked ==
  Touches(level, Vec(AfterHorizontal.x, AfterHorizontal.y + Covered(Accelerated)),
          PlayerSize, "wall")

(***************************************************************************)
(* C22 as claimed: when the tentative vertical move is blocked by wall,    *)
(* the new vertical speed is -17 if the jump key is held and the vertical  *)
(* speed before this update was non-negative, and 0 in every other blocked *)
(* case.                                                                   *)
(***************************************************************************)
C22_Original ==
  (PlayerUpdateReturned /\ VerticalBlocked)
  => call.result.speed.y =
       IF call.keys.ArrowUp /\ actors[1].speed.y >= 0 THEN -17000 ELSE 0

(***************************************************************************)
(* C22 amended: when the tentative vertical move is blocked by wall, the   *)
(* new vertical speed is -17 if the jump key is held and the vertical      *)
(* speed after gravity was added in this update, speed.y + 30 * dt, is     *)
(* positive, and 0 in every other blocked case.                            *)
(***************************************************************************)
C22_JumpRule ==
  (PlayerUpdateReturned /\ VerticalBlocked)
  => call.result.speed.y =
       IF call.keys.ArrowUp /\ Accelerated > 0 THEN -17000 ELSE 0

\* a player that was still rising lands on a surface within the step and
\* jumps again
C22_Witness ==
  /\ PlayerUpdateReturned
  /\ VerticalBlocked
  /\ call.keys.ArrowUp
  /\ actors[1].speed.y < 0
  /\ Accelerated > 0
  /\ call.result.speed.y = -17000

(***************************************************************************)
(* C23: the horizontal rule of Player.update.  The reported horizontal     *)
(* speed is -7 when only left is held, +7 when only right is held and 0    *)
(* when neither or both are, whatever the previous speed; the player moves *)
(* by that speed times dt if and only if the destination does not touch    *)
(* wall, and when it is blocked x is unchanged while speed.x is still the  *)
(* attempted speed.                                                        *)
(***************************************************************************)
C23_HorizontalRule ==
  PlayerUpdateReturned =>
    LET dest == Vec(actors[1].pos.x + Covered(Attempted), actors[1].pos.y)
    IN /\ call.result.speed.x = Attempted
       /\ call.result.pos.x =
            IF Touches(level, dest, PlayerSize, "wall") THEN actors[1].pos.x ELSE dest.x

\* a player that came from the right pushes against the wall on its right
C23_Witness ==
  /\ PlayerUpdateReturned
  /\ actors[1].speed.x = -7000
  /\ Attempted = 7000
  /\ call.result.pos.x = actors[1].pos.x
  /\ call.result.speed.x = 7000

(***************************************************************************)
(* C24: the vertical rule of Player.update.  The vertical speed is first   *)
(* increased by 30 * dt whatever the keys; the tentative vertical move     *)
(* starts from the position the horizontal move left.  If it does not      *)
(* touch wall the player is there and keeps the accelerated speed; if it   *)
(* does, y is what it was before the update while x is still the one the   *)
(* horizontal move left.                                                   *)
(***************************************************************************)
C24_VerticalRule ==
  PlayerUpdateReturned =>
    IF VerticalBlocked
    THEN call.result.pos = AfterHorizontal
    ELSE /\ call.result.pos = Vec(AfterHorizontal.x, AfterHorizontal.y + Covered(Accelerated))
         /\ call.result.speed.y = Accelerated

\* the player walked over the block and was stopped by it: from where it
\* stood, the same fall was free
C24_Witness ==
  /\ PlayerUpdateReturned
  /\ VerticalBlocked
  /\ call.result.pos.x # actors[1].pos.x
  /\ call.result.pos.y = actors[1].pos.y
  /\ ~Touches(level, Vec(actors[1].pos.x, actors[1].pos.y + Covered(Accelerated)),
              PlayerSize, "wall")

(***************************************************************************)
(* C25: Lava.update.  With the tentative position pos + speed * dt: if it  *)
(* does not touch wall, the lava is there with the same speed and reset;   *)
(* if it touches wall and the lava has a reset position, the lava is at    *)
(* the reset position with the same speed and reset; if it touches wall    *)
(* and there is no reset position, the position is unchanged and the speed *)
(* vector is negated.                                                      *)
(***************************************************************************)
C25_LavaUpdate ==
  LavaUpdateReturned =>
    LET this == actors[1]
        dest == Vec(this.pos.x + Covered(this.speed.x), this.pos.y + Covered(this.speed.y))
    IN IF ~Touches(level, dest, LavaSize, "wall")
       THEN /\ call.result.pos = dest
            /\ call.result.speed = this.speed
            /\ call.result.reset = this.reset
       ELSE IF this.reset # {}
       THEN /\ call.result.pos \in this.reset
            /\ call.result.speed = this.speed
            /\ call.result.reset = this.reset
       ELSE /\ call.result.pos = this.pos
            /\ call.result.speed = Vec(-this.speed.x, -this.speed.y)
            /\ call.result.reset = {}

\* a dripping lava reached the floor and is back at its reset position
C25_Witness ==
  /\ LavaUpdateReturned
  /\ actors[1].reset # {}
  /\ call.result.pos \in actors[1].reset
  /\ call.result.pos # actors[1].pos
  /\ call.result.speed = actors[1].speed

(***************************************************************************)
(* C26: the lava bounce cycle.  A horizontally bouncing lava in a corridor *)
(* closed by walls on both sides, updated with a constant time step, is    *)
(* back at its starting position after a full cycle: once it has been      *)
(* blocked on each side and moves in its starting direction again, it goes *)
(* through its starting x before it is anywhere beyond it; and its y never *)
(* changes.                                                                *)
(***************************************************************************)
C26_BounceCycle ==
  call.fn = "bounce" =>
    /\ actors[1].pos.y = call.start.pos.y
    /\ (/\ call.blocked = {"left", "right"}
        /\ actors[1].speed = call.start.speed
        /\ ~call.returned)
       => ~DoubleBelow(Double(call.start.pos.x.m - actors[1].pos.x.m,
                              call.start.pos.x.b - actors[1].pos.x.b), 0)

\* where the monster that was the i-th actor of the receiver of the last
\* call tries to go: 4 * dt towards the player of that receiver
MonsterDestination(i) ==
  LET monster == last.actors[i]
      player == PlayerOf(last.actors)
      direction == IF player.pos.x < monster.pos.x THEN -1 ELSE 1
  IN Vec(monster.pos.x + direction * 4 * last.time, monster.pos.y)

MonsterBlocked(i) == Touches(level, MonsterDestination(i), MonsterSize, "wall")

(***************************************************************************)
(* C27: Monster.update.  In every update, whatever the status, a monster   *)
(* moves horizontally by 4 * dt towards the player of the state that is    *)
(* updated, to the left if player.pos.x < monster.pos.x and to the right   *)
(* otherwise, equal x included; if the destination rectangle touches wall  *)
(* it stays exactly where it is, and the next update applies the same rule *)
(* again.  In every reachable state a monster has the y it spawned with.   *)
(***************************************************************************)
C27_MonsterUpdate ==
  /\ \A k \in 1..Len(actors) :
       actors[k].type = "monster" =>
         actors[k].pos.y = level.startActors[actors[k].id].pos.y
  /\ (last.called /\ ~err) =>
       \A k \in 1..Len(actors) :
         actors[k].type = "monster" =>
           \E i \in 1..Len(last.actors) :
             /\ last.actors[i].id = actors[k].id
             /\ last.actors[i].type = "monster"
             /\ actors[k].pos = IF MonsterBlocked(i) THEN last.actors[i].pos
                                ELSE MonsterDestination(i)

\* a monster that walked towards the player is stopped by the wall behind
\* the player and stays where it is
C27_Witness ==
  /\ last.called
  /\ ~err
  /\ \E k \in 1..Len(actors) : \E i \in 1..Len(last.actors) :
       /\ actors[k].type = "monster"
       /\ last.actors[i].id = actors[k].id
       /\ MonsterBlocked(i)
       /\ actors[k].pos = last.actors[i].pos
       /\ actors[k].pos # level.startActors[actors[k].id].pos

(***************************************************************************)
(* C28: the terminal-state policy.  An update of a state that is won or    *)
(* lost returns the same status and an actor list of the same length,      *)
(* whose i-th element is the update result of the i-th actor: the actors   *)
(* keep moving.  Neither the lava-tile test nor a collide is run: no actor *)
(* is removed, even if a coin or a monster overlaps the player.            *)
(***************************************************************************)
C28_TerminalPolicy ==
  (last.called /\ ~err /\ last.status # "playing")
  => /\ status = last.status
     /\ Len(actors) = Len(last.actors)
     /\ \A i \in 1..Len(actors) :
          /\ actors[i].id = last.actors[i].id
          /\ actors[i] = ActorUpdate(last.actors[i], last.time, Pre, last.keys)

\* after the game was lost, a coin that overlaps the player has moved and
\* is still in the list
C28_Witness ==
  /\ last.called
  /\ ~err
  /\ last.status = "lost"
  /\ \E i \in 1..Len(Upd) :
       /\ CollidesAt(i)
       /\ Upd[i].type = "coin"
       /\ actors[i] = Upd[i]
       /\ actors[i] # last.actors[i]

\* the coin Coin.create made for the actor with this id
CreatedCoin(id) == level.startActors[id]

C30_WonMeansNoCoin ==
  /\ status = "won" => CoinsOf(actors) = {}
  /\ (last.called /\ last.status = "playing" /\ status = "won")
       => \E i \in CoinsOf(last.actors) : ~IdIn(last.actors[i].id, actors)

\* the game was won by an update that removed the two coins that were left
C30_Witness ==
  /\ last.called
  /\ last.status = "playing"
  /\ status = "won"
  /\ Cardinality(CoinsOf(last.actors)) = 2

\* the plan of the level holds no coin
Coinless == CoinsOf(level.startActors) = {}

Removed == {i \in 1..Len(level.startActors) : ~IdIn(i, actors)}

(***************************************************************************)
(* C32: the structure of the actor list.  Along any sequence of updates    *)
(* the number of actors never increases and an update returns no actor the *)
(* updated state did not have; the surviving actors keep their relative    *)
(* order, which is the order of the start list; only coins and monsters    *)
(* are ever removed, so every lava of the start list is in every reachable *)
(* state; and a level with exactly one '@' has exactly one player in every *)
(* reachable state.                                                        *)
(***************************************************************************)
C32_ActorList ==
  /\ \A k \in 1..Len(actors) :
       /\ actors[k].id \in 1..Len(level.startActors)
       /\ actors[k].type = level.startActors[actors[k].id].type
       /\ \A j \in (k + 1)..Len(actors) : actors[k].id < actors[j].id
  /\ \A i \in Removed : level.startActors[i].type \in {"coin", "monster"}
  /\ Cardinality({i \in 1..Len(level.startActors) : level.startActors[i].type = "player"}) = 1
       => Cardinality({k \in 1..Len(actors) : actors[k].type = "player"}) = 1
  /\ (last.called /\ ~err) =>
       /\ Len(actors) <= Len(last.actors)
       /\ \A k \in 1..Len(actors) : IdIn(actors[k].id, last.actors)

\* a coin and a monster have been removed, and the player is left
C32_Witness ==
  /\ last.called
  /\ ~err
  /\ \E i \in Removed : level.startActors[i].type = "coin"
  /\ \E i \in Removed : level.startActors[i].type = "monster"
  /\ Len(actors) >= 1

\* the actors that the terrain stops
Solid(acts) == {k \in 1..Len(acts) : acts[k].type \in {"player", "lava", "monster"}}

\* no player, lava or monster of acts touches a wall tile or a cell outside
\* the grid
Clear(acts) ==
  \A k \in Solid(acts) : ~Touches(level, acts[k].pos, Size(acts[k]), "wall")

(***************************************************************************)
(* C33: no actor inside terrain.  If no player, lava or monster of the     *)
(* start list touches a wall tile, cells outside the grid counting as      *)
(* wall, then in every reachable state no player, lava or monster touches  *)
(* a wall tile: they all stay inside the grid.                             *)
(***************************************************************************)
C33_NoActorInTerrain == Clear(level.startActors) => Clear(actors)

\* in a level that starts clear, a lava has turned back where it was
\* blocked, and every actor is clear of the walls
C33_Witness ==
  /\ Clear(level.startActors)
  /\ last.called
  /\ ~err
  /\ \E k \in Solid(actors) :
       /\ actors[k].type = "lava"
       /\ actors[k].speed # level.startActors[actors[k].id].speed
  /\ Clear(actors)

\* a wall cell, or a cell outside the grid, lies in the rectangle that
\* spans the player's rectangles at the positions from and to
SweepsWall(from, to) ==
  Touches(level, Vec(Min(from.x, to.x), Min(from.y, to.y)),
          Vec(Max(from.x, to.x) - Min(from.x, to.x) + PlayerSize.x,
              Max(from.y, to.y) - Min(from.y, to.y) + PlayerSize.y), "wall")

(***************************************************************************)
(* C34: no tunnelling.  With every time step at most 0.1 s, the player     *)
(* never passes through a wall: in every update, no wall cell lies in the  *)
(* region the player's rectangle sweeps from its old position to its new   *)
(* one, first along x and then along y.                                    *)
(***************************************************************************)
C34_NoTunnelling ==
  (last.called /\ ~err /\ last.time <= 100) =>
    LET old == PlayerOf(last.actors).pos
        new == PlayerOf(actors).pos
        turn == Vec(new.x, old.y)
    IN ~SweepsWall(old, turn) /\ ~SweepsWall(turn, new)

\* the lava Lava.create made for the actor with this id
CreatedLava(id) == level.startActors[id]

(***************************************************************************)
(* C35: the variant of a lava is preserved.  Along any sequence of updates *)
(* a dripping lava keeps the same reset position, its spawn position, and  *)
(* the same speed (0, 3); a bouncing lava never acquires a reset position  *)
(* and its speed is always its initial speed or the exact negation of it.  *)
(***************************************************************************)
C35_LavaVariant ==
  \A k \in 1..Len(actors) :
    actors[k].type = "lava" =>
      LET created == CreatedLava(actors[k].id)
      IN IF created.reset # {}
         THEN /\ actors[k].reset = {created.pos}
              /\ actors[k].speed = Vec(0, 3000)
         ELSE /\ actors[k].reset = {}
              /\ actors[k].speed \in
                   {created.speed, Vec(-created.speed.x, -created.speed.y)}

\* a dripping lava that had fallen is back at its spawn position
C35_Witness ==
  /\ last.called
  /\ ~err
  /\ \E k \in 1..Len(actors) :
       /\ actors[k].type = "lava"
       /\ actors[k].reset # {}
       /\ actors[k].pos = CreatedLava(actors[k].id).pos
       /\ last.actors[k].pos # actors[k].pos

\* a level is running: its promise has not resolved and no update threw
LevelPending == game.pc = "level" /\ ~err

(***************************************************************************)
(* C36: the pause state machine of runLevel.  The variable running takes   *)
(* only the values yes, pausing and no; for every interleaving of Escape   *)
(* keys and animation frames, at most one animation loop is scheduled at   *)
(* any time; before the level has ended, running is no exactly when no     *)
(* loop is scheduled; and state.update is never called while running is    *)
(* no: no step of the driver that updates the state starts from it.        *)
(***************************************************************************)
C36_PauseMachine ==
  /\ [](/\ game.running \in {"yes", "pausing", "no"}
        /\ Len(game.loops) <= 1
        /\ LevelPending => (game.running = "no" <=> game.loops = <<>>))
  /\ [][game.running = "no" => UNCHANGED <<actors, status, steps>>]_vars

\* the level is paused after it has been updated: no loop is scheduled
C36_Witness ==
  /\ LevelPending
  /\ steps > 0
  /\ game.running = "no"
  /\ game.loops = <<>>

\* the animation loop has been started and its first frame has not come
LoopStarting == game.loops # <<>> /\ game.loops[1] = <<>>

(***************************************************************************)
(* C37: time stepping in runAnimation.  With frame timestamps that do not  *)
(* decrease, every time step passed to the frame function is between 0 and *)
(* 0.1 s.  The first frame after an animation loop is started, at the      *)
(* start of a level or on resume from a pause, does not call the frame     *)
(* function: nothing of the simulation changes in it, so the time spent    *)
(* paused never advances the simulation.                                   *)
(***************************************************************************)
C37_TimeStepping ==
  /\ [](game.timeStep # <<>> => game.timeStep[1] \in 0..100)
  /\ [][LoopStarting =>
         UNCHANGED <<level, actors, status, steps, err>>
         /\ game'.ending = game.ending
         /\ game'.timeStep = game.timeStep
         /\ game'.runs = game.runs]_vars

\* a level that has been updated was paused and resumed: the loop is
\* started again and its first frame has not come
C37_Witness ==
  /\ LevelPending
  /\ steps > 0
  /\ game.timeStep = <<100>>
  /\ game.running = "yes"
  /\ game.resolved = "none"
  /\ LoopStarting

\* C38: runLevel settles its promise once, with the status of the first state
\* that was not 'playing', which is 'won' or 'lost'; by then the time steps of
\* the frames since that state add up to one second or more.  The frame that
\* resolves removes its display, the Escape handler and the arrow-key
\* tracker, and requests no further frame: the only display, listeners and
\* loop left are those of the next run, and none once the game is done, after
\* which nothing happens any more.
C38_RunLevelPromise ==
  /\ [](/\ game.resolved \in {"none", "won", "lost"}
        /\ game.displays = IF game.pc = "done" THEN 0 ELSE 1
        /\ game.pc = "done" =>
             ~game.escHandler /\ ~game.tracking /\ game.loops = <<>>)
  /\ [][/\ game.pc # "done"
        /\ RunResolves =>
             /\ status \in {"won", "lost"}
             /\ game.firstOver = status
             /\ game'.resolved = game.firstOver
             /\ game.sinceOver >= ENDING
             /\ game'.pc = "level" =>
                  /\ game'.loops = << <<>> >>
                  /\ game'.arrowKeys = NoKeys
                  /\ game'.firstOver = "playing"
                  /\ game'.sinceOver = 0]_vars

\* a second run has just begun, after the first one resolved with 'lost'
C38_Witness ==
  /\ LevelPending
  /\ game.resolved = "lost"
  /\ game.runs = 2
  /\ steps = 0
  /\ game.displays = 1
  /\ LoopStarting

\* C39: lives starts at START_LIVES, goes down by one when a level run
\* resolves with 'lost' and changes at no other time; it never becomes
\* negative, and no level run starts once it has reached 0.
C39_Lives ==
  /\ [](/\ game.runs = 1 => game.lives = START_LIVES
        /\ game.lives >= 0)
  /\ [][/\ game'.lives = IF RunResolves /\ status = "lost"
                          THEN game.lives - 1 ELSE game.lives
        /\ game'.runs # game.runs => game'.lives > 0]_vars
====
